---------------------------- MODULE Spec2Model ----------------------------
(***************************************************************************)
(* Model of the cocktail flavor pipeline: molecule lookup, ingredient      *)
(* profiling, volume-weighted aggregation, balance scoring, modification   *)
(* and recommendation (src/src/data/flavor_loader.py,                      *)
(* src/src/analysis/molecular_profile.py, src/src/recommendation/*.py).    *)
(*                                                                         *)
(* Numbers.  The Python code computes in binary floating point.  Here a    *)
(* number is an exact rational [n |-> numerator, d |-> denominator > 0]    *)
(* in lowest terms; floating-point rounding is not modelled.  The only     *)
(* irrational step, sqrt(raw)/sqrt(max) in _compute_taste_scores, is       *)
(* rounded down to a multiple of 1/Scale.  Volumes are rationals in ml.    *)
(***************************************************************************)
EXTENDS Integers, Sequences, FiniteSets, TLC

VARIABLES
    cocktails,      \* CocktailAnalyzer.cocktails: the stored cocktail records
    profile_cache,  \* MolecularProfiler.profile_cache of every profiler object
    result,         \* what the last call returned, or the exception it raised
    calls,          \* number of calls made so far
    argument        \* the argument of the function under test (function specs)

vars == <<cocktails, profile_cache, result, calls, argument>>

-----------------------------------------------------------------------------
(* Bounds of the model *)

\* resolution of an ingredient's taste score: scores are multiples of 1/Scale
Scale == 10
\* taste vectors handed to _compute_overall_balance have entries k/TasteGrid
TasteGrid == 4

-----------------------------------------------------------------------------
(* Exact rational arithmetic *)

Abs(x) == IF x < 0 THEN -x ELSE x

Min(a, b) == IF a <= b THEN a ELSE b

Max(a, b) == IF a >= b THEN a ELSE b

RECURSIVE GCD(_, _)
GCD(a, b) == IF b = 0 THEN Abs(a) ELSE GCD(b, a % Abs(b))

LCM(a, b) == (a \div GCD(a, b)) * b

\* the rational n/d in lowest terms with a positive denominator
Q(n, d) ==
    LET g == GCD(n, d)
        s == IF d < 0 THEN -1 ELSE 1
    IN  [n |-> s * (n \div g), d |-> s * (d \div g)]

QInt(k) == [n |-> k, d |-> 1]

Zero == QInt(0)

One == QInt(1)

QAdd(a, b) ==
    LET l == LCM(a.d, b.d)
    IN  Q(a.n * (l \div a.d) + b.n * (l \div b.d), l)

QNeg(a) == [n |-> -a.n, d |-> a.d]

QSub(a, b) == QAdd(a, QNeg(b))

QMul(a, b) ==
    LET g1 == GCD(a.n, b.d)
        g2 == GCD(b.n, a.d)
    IN  IF a.n = 0 \/ b.n = 0 THEN Zero
        ELSE Q((a.n \div g1) * (b.n \div g2), (a.d \div g2) * (b.d \div g1))

\* a / b for b # 0
QDiv(a, b) == QMul(a, Q(b.d, b.n))

QAbs(a) == [n |-> Abs(a.n), d |-> a.d]

\* a < b, by comparing integer parts and then the reciprocals of the
\* fractional parts (no cross product, so no overflow)
RECURSIVE QLess(_, _)
QLess(a, b) ==
    LET fa == a.n \div a.d
        fb == b.n \div b.d
        ra == a.n % a.d
        rb == b.n % b.d
    IN  IF fa # fb THEN fa < fb
        ELSE IF rb = 0 THEN FALSE
        ELSE IF ra = 0 THEN TRUE
        ELSE QLess([n |-> b.d, d |-> rb], [n |-> a.d, d |-> ra])

QLeq(a, b) == ~QLess(b, a)

QMin(a, b) == IF QLess(b, a) THEN b ELSE a

QMax(a, b) == IF QLess(a, b) THEN b ELSE a

\* the difference to - from of two balances, kept as its two operands: the
\* exact difference of two balances can need more digits than an integer
\* of the model has
Gain(to, from) == [to |-> to, from |-> from]

\* a faulty variant, for mutation analysis: to - from >= 0
NotNegative(gain) == QLeq(gain.from, gain.to)

\* to - from > 0
Positive(gain) == QLess(gain.from, gain.to)

\* a <= b for two gains from the same balance
GainLeq(a, b) == QLeq(a.to, b.to)

\* floor(sqrt(n)) for n in 0 .. k*k
ISqrt(n, k) == CHOOSE r \in 0..k : r * r <= n /\ (r + 1) * (r + 1) > n

RECURSIVE SumSeq(_)
SumSeq(s) == IF s = <<>> THEN 0 ELSE Head(s) + SumSeq(Tail(s))

RECURSIVE QSumSeq(_)
QSumSeq(s) == IF s = <<>> THEN Zero ELSE QAdd(Head(s), QSumSeq(Tail(s)))

RECURSIVE LCMSeq(_)
LCMSeq(s) == IF s = <<>> THEN 1 ELSE LCM(Head(s), LCMSeq(Tail(s)))

-----------------------------------------------------------------------------
(* Taste vectors *)

\* molecular_profile.py:342, the five fixed dimensions in the code's order
taste_dimensions == <<"sweet", "sour", "bitter", "savory", "aromatic">>

Dims == {taste_dimensions[i] : i \in 1..5}

\* list(taste_scores.values())
Values(taste_scores) == [i \in 1..5 |-> taste_scores[taste_dimensions[i]]]

\* np.mean of five numbers
Mean(xs) == QDiv(QSumSeq(xs), QInt(Len(xs)))

\* a faulty variant, for mutation analysis: sample variance (ddof = 1)
SampleVariance(xs) ==
    LET D  == LCMSeq([i \in 1..Len(xs) |-> xs[i].d])
        ks == [i \in 1..Len(xs) |-> xs[i].n * (D \div xs[i].d)]
        sq == [i \in 1..Len(xs) |-> ks[i] * ks[i]]
        N  == Len(xs)
    IN  Q(N * SumSeq(sq) - SumSeq(ks) * SumSeq(ks), N * (N - 1) * D * D)

\* a faulty variant, for mutation analysis: the mean of the squares, without subtracting the squared mean
MeanSquare(xs) ==
    LET sq == [i \in 1..Len(xs) |-> QMul(xs[i], xs[i])]
    IN  Mean(sq)

\* np.var (population variance, ddof = 0) of five numbers: with the numbers
\* written over their common denominator D as k_i/D this is
\* (5 * sum k_i^2 - (sum k_i)^2) / (25 D^2), which equals mean(|x - mean|^2)
Variance(xs) ==
    LET D  == LCMSeq([i \in 1..Len(xs) |-> xs[i].d])
        ks == [i \in 1..Len(xs) |-> xs[i].n * (D \div xs[i].d)]
        sq == [i \in 1..Len(xs) |-> ks[i] * ks[i]]
        N  == Len(xs)
    IN  Q(N * SumSeq(sq) - SumSeq(ks) * SumSeq(ks), N * N * D * D)

\* a faulty variant, for mutation analysis: balance from the mean square instead of the variance
BalanceFromMeanSquare(taste_scores) ==
    LET scores == Values(taste_scores)
    IN  IF \A i \in 1..Len(scores) : scores[i] = Zero THEN Zero
        ELSE QDiv(One, QAdd(One, MeanSquare(scores)))

\* a faulty variant, for mutation analysis: balance from the sample variance
BalanceFromSampleVariance(taste_scores) ==
    LET scores == Values(taste_scores)
    IN  IF \A i \in 1..Len(scores) : scores[i] = Zero THEN Zero
        ELSE QDiv(One, QAdd(One, SampleVariance(scores)))

\* CocktailAnalyzer._compute_overall_balance (molecular_profile.py:376-400)
_compute_overall_balance(taste_scores) ==
    LET scores == Values(taste_scores)
    IN  IF \A i \in 1..Len(scores) : scores[i] = Zero THEN Zero
        ELSE QDiv(One, QAdd(One, Variance(scores)))

AllEqual(taste_scores) ==
    \A a, b \in Dims : taste_scores[a] = taste_scores[b]

AllZero(taste_scores) == \A a \in Dims : taste_scores[a] = Zero

\* every entry lies in [0, 1]
Legal(taste_scores) ==
    \A a \in Dims : QLeq(Zero, taste_scores[a]) /\ QLeq(taste_scores[a], One)

-----------------------------------------------------------------------------
(* Strings: str.lower() and the substring test `a in b` *)

UpperCase == "ABCDEFGHIJKLMNOPQRSTUVWXYZ"

LowerCase == "abcdefghijklmnopqrstuvwxyz"

LowerChar(c) ==
    IF \E i \in 1..26 : SubSeq(UpperCase, i, i) = c
    THEN LET i == CHOOSE j \in 1..26 : SubSeq(UpperCase, j, j) = c
         IN  SubSeq(LowerCase, i, i)
    ELSE c

RECURSIVE LowerFrom(_, _)
LowerFrom(s, i) ==
    IF i > Len(s) THEN ""
    ELSE LowerChar(SubSeq(s, i, i)) \o LowerFrom(s, i + 1)

\* s.lower()
Lower(s) == LowerFrom(s, 1)

\* sub in s
Contains(sub, s) ==
    \E i \in 1..(Len(s) - Len(sub) + 1) : SubSeq(s, i, i + Len(sub) - 1) = sub

\* any(k in s for k in keys)
ContainsAny(keys, s) == \E k \in keys : Contains(k, s)

\* value in list
InList(x, list) == \E i \in 1..Len(list) : list[i] = x

\* list.index(value), for a value in the list
IndexOf(x, list) == CHOOSE i \in 1..Len(list) :
    list[i] = x /\ \A j \in 1..(i - 1) : list[j] # x

\* list.pop(idx): the list without position idx
RemoveAt(list, idx) ==
    [i \in 1..(Len(list) - 1) |-> IF i < idx THEN list[i] ELSE list[i + 1]]

RECURSIVE Concat(_)
Concat(lists) ==
    IF lists = <<>> THEN <<>> ELSE Head(lists) \o Concat(Tail(lists))

-----------------------------------------------------------------------------
(* The molecule table (FlavorDB), the input of FlavorLoader.load_flavor_db. *)
(* A molecule carries its '@'-separated flavor_profile and                  *)
(* functional_groups already split, its molecular_weight and its            *)
(* super_sweet and bitter flags.                                            *)

Mol(kw, fg, mw, sweet, bitter) ==
    [flavor_profile |-> kw, functional_groups |-> fg,
     molecular_weight |-> mw, super_sweet |-> sweet, bitter |-> bitter]

sucrose  == Mol(<<"sweet">>, <<"alcohol">>, 342, TRUE, FALSE)

vanillin == Mol(<<"vanilla", "sweet", "creamy">>, <<"aldehyde", "aromatic">>,
                152, FALSE, FALSE)

citric   == Mol(<<"sour", "Citrus">>, <<"acid">>, 192, FALSE, FALSE)

limonene == Mol(<<"citrus", "herbal", "fresh">>, <<"alkene">>, 136,
                FALSE, FALSE)

pinene   == Mol(<<"woody", "herbal", "pine">>, <<"alkene">>, 136,
                FALSE, FALSE)

caffeine == Mol(<<"bitter">>, <<"amide", "aromatic">>, 194, FALSE, TRUE)

furfural == Mol(<<"bittersweet", "roasted">>, <<"aldehyde", "aromatic">>,
                96, FALSE, FALSE)

glutamate == Mol(<<"umami", "meaty">>, <<"acid", "amine">>, 147,
                 FALSE, FALSE)

cellulose == Mol(<<>>, <<>>, 0, FALSE, FALSE)

\* FlavorLoader.molecules_by_source after load_flavor_db: lower-cased source
\* or alias name -> molecules, in table order
molecules_by_source ==
    [sugar     |-> <<sucrose>>,
     honey     |-> <<sucrose, vanillin>>,
     citrus    |-> <<citric, limonene>>,
     lemon     |-> <<limonene>>,
     juniper   |-> <<pinene, limonene>>,
     coffee    |-> <<caffeine, furfural>>,
     mint      |-> <<limonene>>,
     celery    |-> <<glutamate>>,
     agave     |-> <<sucrose>>,
     herbs     |-> <<pinene>>,
     bitter    |-> <<caffeine>>,
     fiber     |-> <<cellulose>>]

\* molecules_by_source.get(source, [])
SourceGet(source) ==
    IF source \in DOMAIN molecules_by_source
    THEN molecules_by_source[source] ELSE <<>>

\* FlavorLoader._fuzzy_match_ingredient.keyword_mappings, in dict order
keyword_mappings ==
    << <<"lemon", <<"citrus", "lemon">> >>,
       <<"lime", <<"citrus", "lime">> >>,
       <<"orange", <<"citrus", "orange">> >>,
       <<"gin", <<"juniper">> >>,
       <<"vodka", <<"grain", "potato">> >>,
       <<"rum", <<"sugar cane", "molasses">> >>,
       <<"whiskey", <<"grain", "malt">> >>,
       <<"whisky", <<"grain", "malt">> >>,
       <<"tequila", <<"agave">> >>,
       <<"brandy", <<"grape">> >>,
       <<"cognac", <<"grape">> >>,
       <<"vermouth", <<"wine", "herbs">> >>,
       <<"coffee", <<"coffee">> >>,
       <<"tea", <<"tea">> >>,
       <<"mint", <<"mint">> >>,
       <<"sugar", <<"sugar">> >>,
       <<"honey", <<"honey">> >>,
       <<"chocolate", <<"cocoa">> >>,
       <<"cocoa", <<"cocoa">> >>,
       <<"vanilla", <<"vanilla">> >>,
       <<"cinnamon", <<"cinnamon">> >>,
       <<"ginger", <<"ginger">> >>,
       <<"apple", <<"apple">> >>,
       <<"pineapple", <<"pineapple">> >>,
       <<"coconut", <<"coconut">> >>,
       <<"cherry", <<"cherry">> >>,
       <<"cranberry", <<"cranberry">> >>,
       <<"grape", <<"grape">> >>,
       <<"peach", <<"peach">> >>,
       <<"strawberry", <<"strawberry">> >>,
       <<"raspberry", <<"raspberry">> >>,
       <<"blackberry", <<"blackberry">> >>,
       <<"cream", <<"milk", "dairy">> >>,
       <<"milk", <<"milk", "dairy">> >>,
       <<"butter", <<"milk", "dairy">> >> >>

\* the molecules of a list of sources, concatenated in order
SourcesMolecules(sources) ==
    Concat([i \in 1..Len(sources) |-> SourceGet(sources[i])])

\* FlavorLoader._fuzzy_match_ingredient (flavor_loader.py:104-161)
_fuzzy_match_ingredient(ingredient) ==
    Concat([i \in 1..Len(keyword_mappings) |->
        IF Contains(keyword_mappings[i][1], ingredient)
        THEN SourcesMolecules(keyword_mappings[i][2])
        ELSE <<>>])

\* optimizer_v2.py:23-47, SPIRIT_FALLBACK_MAPPINGS in dict order
SPIRIT_FALLBACK_MAPPINGS_V2 ==
    << <<"rum", <<"sugar cane", "molasses">>>>,
       <<"light rum", <<"sugar cane", "citrus">>>>,
       <<"dark rum", <<"molasses", "caramel", "vanilla">>>>,
       <<"white rum", <<"sugar cane">>>>,
       <<"spiced rum", <<"sugar cane", "cinnamon", "vanilla">>>>,
       <<"tequila", <<"agave">>>>,
       <<"bourbon", <<"corn", "oak", "vanilla">>>>,
       <<"whiskey", <<"grain", "malt", "oak">>>>,
       <<"whisky", <<"grain", "malt", "oak">>>>,
       <<"scotch", <<"malt", "peat", "oak">>>>,
       <<"rye", <<"grain", "spice">>>>,
       <<"vodka", <<"grain">>>>,
       <<"triple sec", <<"orange", "citrus">>>>,
       <<"cointreau", <<"orange", "citrus">>>>,
       <<"grand marnier", <<"orange", "cognac">>>>,
       <<"campari", <<"bitter orange", "herbs">>>>,
       <<"aperol", <<"orange", "herbs">>>>,
       <<"angostura bitters", <<"spice", "herbs">>>>,
       <<"orange bitters", <<"orange">>>>,
       <<"simple syrup", <<"sugar">>>>,
       <<"sugar syrup", <<"sugar">>>>,
       <<"soda water", <<"water">>>>,
       <<"club soda", <<"water">>>> >>

\* optimizer_v3.py:23-105, SPIRIT_FALLBACK_MAPPINGS in dict order
SPIRIT_FALLBACK_MAPPINGS_V3 ==
    << <<"rum", <<"sugar cane", "molasses", "vanilla">>>>,
       <<"light rum", <<"sugar cane", "citrus">>>>,
       <<"white rum", <<"sugar cane">>>>,
       <<"dark rum", <<"molasses", "caramel", "vanilla", "oak">>>>,
       <<"spiced rum", <<"sugar cane", "cinnamon", "vanilla", "clove">>>>,
       <<"gold rum", <<"sugar cane", "caramel">>>>,
       <<"tequila", <<"agave", "citrus">>>>,
       <<"mezcal", <<"agave", "smoke">>>>,
       <<"bourbon", <<"corn", "oak", "vanilla", "caramel">>>>,
       <<"whiskey", <<"grain", "malt", "oak">>>>,
       <<"whisky", <<"grain", "malt", "oak">>>>,
       <<"scotch", <<"malt", "peat", "smoke", "oak">>>>,
       <<"rye whiskey", <<"grain", "spice", "oak">>>>,
       <<"irish whiskey", <<"grain", "malt", "oak">>>>,
       <<"vodka", <<"grain", "neutral">>>>,
       <<"gin", <<"juniper", "citrus", "herbs", "coriander">>>>,
       <<"brandy", <<"grape", "oak", "vanilla">>>>,
       <<"cognac", <<"grape", "oak", "vanilla">>>>,
       <<"pisco", <<"grape">>>>,
       <<"triple sec", <<"orange", "citrus", "sweet">>>>,
       <<"cointreau", <<"orange", "citrus", "sweet">>>>,
       <<"grand marnier", <<"orange", "cognac", "sweet">>>>,
       <<"curacao", <<"orange", "citrus", "sweet">>>>,
       <<"blue curacao", <<"orange", "citrus", "sweet">>>>,
       <<"campari", <<"bitter orange", "herbs", "bitter">>>>,
       <<"aperol", <<"orange", "herbs", "bitter">>>>,
       <<"amaretto", <<"almond", "sweet">>>>,
       <<"frangelico", <<"hazelnut", "sweet">>>>,
       <<"kahlua", <<"coffee", "sweet">>>>,
       <<"baileys irish cream", <<"cream", "whiskey", "cocoa">>>>,
       <<"chartreuse", <<"herbs", "spice">>>>,
       <<"benedictine", <<"herbs", "honey">>>>,
       <<"st germain", <<"elderflower">>>>,
       <<"angostura bitters", <<"spice", "herbs", "bitter">>>>,
       <<"orange bitters", <<"orange", "bitter">>>>,
       <<"peychauds bitters", <<"anise", "bitter">>>>,
       <<"simple syrup", <<"sugar">>>>,
       <<"sugar syrup", <<"sugar">>>>,
       <<"honey", <<"honey">>>>,
       <<"agave syrup", <<"agave", "sweet">>>>,
       <<"agave nectar", <<"agave", "sweet">>>>,
       <<"maple syrup", <<"maple", "sweet">>>>,
       <<"grenadine", <<"pomegranate", "sweet">>>>,
       <<"soda water", <<"water">>>>,
       <<"club soda", <<"water">>>>,
       <<"tonic water", <<"water", "bitter">>>>,
       <<"ginger beer", <<"ginger", "sweet">>>>,
       <<"ginger ale", <<"ginger", "sweet">>>>,
       <<"cola", <<"caramel", "sweet">>>>,
       <<"orange juice", <<"orange", "citrus">>>>,
       <<"lemon juice", <<"lemon", "citrus">>>>,
       <<"lime juice", <<"lime", "citrus">>>>,
       <<"grapefruit juice", <<"grapefruit", "citrus">>>>,
       <<"pineapple juice", <<"pineapple">>>>,
       <<"cranberry juice", <<"cranberry">>>>,
       <<"tomato juice", <<"tomato">>>>,
       <<"vermouth", <<"wine", "herbs">>>>,
       <<"dry vermouth", <<"wine", "herbs">>>>,
       <<"sweet vermouth", <<"wine", "herbs", "caramel">>>>,
       <<"port", <<"grape", "sweet">>>>,
       <<"sherry", <<"grape", "oak">>>> >>

\* key in table
HasKey(table, key) == \E i \in 1..Len(table) : table[i][1] = key

\* table[key]
Lookup(table, key) ==
    table[CHOOSE i \in 1..Len(table) : table[i][1] = key][2]

\* the optimizer versions: FlavorOptimizer (1), FlavorOptimizerV2 (2),
\* FlavorOptimizerV3 (3) and its subclass FlavorOptimizerV4 (4)
Versions == {1, 2, 3, 4}

SPIRIT_FALLBACK_MAPPINGS(version) ==
    IF version = 2 THEN SPIRIT_FALLBACK_MAPPINGS_V2
    ELSE SPIRIT_FALLBACK_MAPPINGS_V3

\* enhanced_fuzzy_match, the matcher that _enhance_ingredient_mappings
\* installs on the optimizer's own profiler (optimizer_v2.py:72-91,
\* optimizer_v3.py:130-145)
enhanced_fuzzy_match(version, ingredient) ==
    LET molecules == _fuzzy_match_ingredient(ingredient)
        table == SPIRIT_FALLBACK_MAPPINGS(version)
        bases == Lookup(table, Lower(ingredient))
    IN  IF molecules = <<>> /\ HasKey(table, Lower(ingredient))
        THEN SourcesMolecules([i \in 1..Len(bases) |-> Lower(bases[i])])
        ELSE molecules

\* The profiler objects of one optimizer: its own profiler, its analyzer's,
\* its modifier's, and the profiler of the modifier's analyzer
\* (optimizer.py:25-26, 197-199; optimizer_v3.py:115-117)
Profilers == {"optimizer", "analyzer", "modifier", "modifier.analyzer"}

\* whether the profiler's loader carries the enhanced matcher: only the
\* optimizer's own profiler of V2 and V3 (and so of V4) is patched
Enhanced(version, profiler) == profiler = "optimizer" /\ version \in {2, 3, 4}

\* FlavorLoader.get_molecules_for_ingredient (flavor_loader.py:83-102) of the
\* loader of the given profiler
get_molecules_for_ingredient(version, profiler, ingredient_name) ==
    LET ingredient_lower == Lower(ingredient_name)
        molecules == SourceGet(ingredient_lower)
    IN  IF molecules # <<>> THEN molecules
        ELSE IF Enhanced(version, profiler)
             THEN enhanced_fuzzy_match(version, ingredient_lower)
             ELSE _fuzzy_match_ingredient(ingredient_lower)

\* a faulty variant, for mutation analysis: molecules_by_source[source], which
\* makes a defaultdict insert an empty list for a missing key
IndexAfterSubscript(index, source) ==
    IF source \in DOMAIN index THEN index ELSE index @@ (source :> <<>>)

\* the defaultdict molecules_by_source after molecules_by_source.get(source,
\* []) (flavor_loader.py:96, 159; optimizer_v2.py:82; optimizer_v3.py:139):
\* get inserts nothing for a missing key
IndexAfterGet(index, source) == index

\* the index after the gets of a list of sources, one after the other
RECURSIVE IndexAfterGets(_, _)
IndexAfterGets(index, sources) ==
    IF sources = <<>> THEN index
    ELSE IndexAfterGets(IndexAfterGet(index, Head(sources)), Tail(sources))

\* the sources that _fuzzy_match_ingredient gets from the index
\* (flavor_loader.py:156-159)
GetsOfFuzzy(ingredient) ==
    Concat([i \in 1..Len(keyword_mappings) |->
        IF Contains(keyword_mappings[i][1], ingredient)
        THEN keyword_mappings[i][2]
        ELSE <<>>])

\* the sources that the enhanced matcher gets after the original one
\* (optimizer_v2.py:79-83, optimizer_v3.py:136-140)
GetsOfEnhanced(version, ingredient_lower) ==
    IF /\ _fuzzy_match_ingredient(ingredient_lower) = <<>>
       /\ HasKey(SPIRIT_FALLBACK_MAPPINGS(version), ingredient_lower)
    THEN [i \in 1..Len(Lookup(SPIRIT_FALLBACK_MAPPINGS(version),
                              ingredient_lower)) |->
             Lower(Lookup(SPIRIT_FALLBACK_MAPPINGS(version),
                          ingredient_lower)[i])]
    ELSE <<>>

\* the sources that get_molecules_for_ingredient gets from the index, in
\* order: the lower-cased name and, when nothing is indexed under it, those
\* of the matcher
GetsOfLookup(version, profiler, ingredient_lower) ==
    <<ingredient_lower>>
        \o (IF SourceGet(ingredient_lower) # <<>> THEN <<>>
            ELSE GetsOfFuzzy(ingredient_lower)
                     \o (IF Enhanced(version, profiler)
                         THEN GetsOfEnhanced(version, ingredient_lower)
                         ELSE <<>>))

\* the index that a call of get_molecules_for_ingredient leaves
IndexAfterLookup(index, version, profiler, ingredient_name) ==
    IndexAfterGets(index, GetsOfLookup(version, profiler,
                                       Lower(ingredient_name)))

-----------------------------------------------------------------------------
(* FlavorLoader.extract_flavor_profiles and MolecularProfiler *)

Range(list) == {list[i] : i \in 1..Len(list)}

\* the occurrence counts of the entries of a list
CountsOf(all) ==
    [k \in Range(all) |-> Cardinality({j \in 1..Len(all) : all[j] = k})]

\* the defaultdict(int) of occurrence counts of the entries of one field
\* over the molecules (flavor_loader.py:195-208)
Counts(molecules, field) ==
    CountsOf(Concat([i \in 1..Len(molecules) |-> molecules[i][field]]))

\* sum(counts[k] for k in counts if any(key in k.lower() for key in keys))
RECURSIVE SumOver(_, _)
SumOver(counts, ks) ==
    IF ks = {} THEN 0
    ELSE LET k == CHOOSE x \in ks : TRUE
         IN  counts[k] + SumOver(counts, ks \ {k})

Matching(counts, keys) ==
    SumOver(counts, {k \in DOMAIN counts : ContainsAny(keys, Lower(k))})

\* sum(molecular_weights) / len(molecular_weights) if molecular_weights
\* else 0, over the molecules that carry a molecular weight
AverageWeight(molecules, weighed) ==
    IF weighed = {} THEN Zero
    ELSE Q(SumOver([i \in weighed |-> molecules[i].molecular_weight],
                   weighed),
           Cardinality(weighed))

\* the profile dict of extract_flavor_profiles (flavor_loader.py:225-248)
FlavorProfile(molecules, flavor_keywords) ==
    [num_molecules |-> Len(molecules),
     flavor_keywords |-> flavor_keywords,
     functional_groups |-> Counts(molecules, "functional_groups"),
     avg_molecular_weight |->
         AverageWeight(molecules,
                       {i \in 1..Len(molecules) :
                           molecules[i].molecular_weight # 0}),
     taste_properties |->
         [sweet |-> Cardinality({i \in 1..Len(molecules) :
                                    molecules[i].super_sweet}),
          bitter |-> Cardinality({i \in 1..Len(molecules) :
                                    molecules[i].bitter}),
          sour |-> Matching(flavor_keywords,
                            {"sour", "acidic", "tart", "citrus"}),
          savory |-> Matching(flavor_keywords,
                            {"savory", "umami", "meaty", "brothy"})]]

\* FlavorLoader.extract_flavor_profiles (flavor_loader.py:163-250), for a
\* non-empty list of molecules
extract_flavor_profiles(molecules) ==
    FlavorProfile(molecules, Counts(molecules, "flavor_profile"))

\* molecular_profile.py:122-126
sweet_keywords ==
    {"sweet", "honey", "caramel", "sugar", "syrup", "vanilla", "fruity"}

bitter_keywords == {"bitter", "astringent", "tannic", "harsh"}

sour_keywords == {"sour", "acidic", "tart", "citrus", "vinegar", "sharp"}

savory_keywords == {"savory", "umami", "meaty", "brothy", "roasted"}

aromatic_keywords ==
    {"floral", "aromatic", "perfume", "fragrant", "herbal", "spicy", "woody",
     "earthy"}

\* a faulty variant, for mutation analysis: linear scaling by a fixed count instead of by the maximum
NormalizeByFixedCount(raw, max_score) == Q(raw, 2)

\* np.sqrt(raw) / np.sqrt(max_score) of _compute_taste_scores
\* (molecular_profile.py:146-154), rounded down to a multiple of 1/Scale
Normalize(raw, max_score) ==
    Q(ISqrt((raw * Scale * Scale) \div max_score, Scale), Scale)

\* the normalisation loop of _compute_taste_scores
\* (molecular_profile.py:146-154) over the five raw scores
NormalizeScores(sweet, sour, bitter, savory, aromatic, max_score) ==
    [sweet |-> Normalize(sweet, max_score),
     sour |-> Normalize(sour, max_score),
     bitter |-> Normalize(bitter, max_score),
     savory |-> Normalize(savory, max_score),
     aromatic |-> Normalize(aromatic, max_score)]

\* max(max(scores.values()), 1) and the normalisation
\* (molecular_profile.py:143-154)
ScaleScores(sweet, sour, bitter, savory, aromatic) ==
    NormalizeScores(
        sweet, sour, bitter, savory, aromatic,
        Max(sweet, Max(bitter, Max(sour, Max(savory, Max(aromatic, 1))))))

\* MolecularProfiler._compute_taste_scores (molecular_profile.py:102-156)
_compute_taste_scores(molecules, flavor_profile) ==
    ScaleScores(
        flavor_profile.taste_properties.sweet
            + 2 * Matching(flavor_profile.flavor_keywords, sweet_keywords),
        flavor_profile.taste_properties.sour
            + 2 * Matching(flavor_profile.flavor_keywords, sour_keywords),
        flavor_profile.taste_properties.bitter
            + 2 * Matching(flavor_profile.flavor_keywords, bitter_keywords),
        flavor_profile.taste_properties.savory
            + 2 * Matching(flavor_profile.flavor_keywords, savory_keywords),
        Matching(flavor_profile.flavor_keywords, aromatic_keywords))

\* tanh at the multiples of 1/4, in thousandths
TanhTable ==
    <<0, 244, 462, 635, 761, 848, 905, 941, 964, 978, 986, 991, 995>>

\* the table's value at step/4, 1 beyond the table
TanhAt(step) == IF step >= 13 THEN One ELSE Q(TanhTable[step + 1], 1000)

\* np.tanh, rounded down to the table's steps of 1/4
Tanh(x) == TanhAt((4 * x.n) \div x.d)

\* whether the molecule's functional_groups string contains the word
HasGroup(mol, word) ==
    \E i \in 1..Len(mol.functional_groups) :
        Contains(word, Lower(mol.functional_groups[i]))

\* total_aromatic_weight (molecular_profile.py:172-186): 1 / (mw / 100)
\* summed over the aromatic molecules lighter than 300; every aromatic
\* molecule of the table has a molecular weight above 0
AromaticWeight(molecules, arom) ==
    QSumSeq([j \in 1..Len(molecules) |->
                IF j \in arom /\ molecules[j].molecular_weight < 300
                THEN Q(100, molecules[j].molecular_weight) ELSE Zero])

\* the end of _compute_aromatic_intensity (molecular_profile.py:188-193)
\* for the set of aromatic molecules
AromaticIntensity(molecules, arom) ==
    IF molecules = <<>> \/ arom = {} THEN Zero
    ELSE QMin(QMul(Q(Cardinality(arom), Len(molecules)),
                   Tanh(QDiv(AromaticWeight(molecules, arom),
                             QInt(Cardinality(arom))))),
              One)

\* MolecularProfiler._compute_aromatic_intensity
\* (molecular_profile.py:158-193)
_compute_aromatic_intensity(molecules) ==
    AromaticIntensity(
        molecules,
        {i \in 1..Len(molecules) : HasGroup(molecules[i], "aromatic")})

\* the volatility by molecular weight (molecular_profile.py:219-226)
BaseVolatility(mw) ==
    IF mw < 100 THEN One
    ELSE IF mw < 200 THEN Q(8, 10)
    ELSE IF mw < 300 THEN Q(5, 10)
    ELSE Q(2, 10)

\* vol *= 1.2 for esters and aldehydes (molecular_profile.py:230-231)
EsterBoost(mol, vol) ==
    IF HasGroup(mol, "ester") \/ HasGroup(mol, "aldehyde")
    THEN QMul(vol, Q(12, 10)) ELSE vol

\* vol *= 1.1 for aromatic molecules (molecular_profile.py:232-233)
AromaticBoost(mol, vol) ==
    IF HasGroup(mol, "aromatic") THEN QMul(vol, Q(11, 10)) ELSE vol

\* the volatility of one molecule (molecular_profile.py:219-235)
MoleculeVolatility(mol) ==
    QMin(AromaticBoost(mol,
                       EsterBoost(mol, BaseVolatility(mol.molecular_weight))),
         One)

\* float(np.mean(volatilities)) if volatilities else 0.0
MeanOrZero(volatilities) ==
    IF volatilities = <<>> THEN Zero ELSE Mean(volatilities)

\* the volatilities of the molecules that carry a molecular weight
Volatilities(weighed) ==
    [i \in 1..Len(weighed) |-> MoleculeVolatility(weighed[i])]

\* MolecularProfiler._estimate_volatility (molecular_profile.py:195-237)
_estimate_volatility(molecules) ==
    IF molecules = <<>> THEN Zero
    ELSE MeanOrZero(
             Volatilities(SelectSeq(molecules,
                                    LAMBDA m : m.molecular_weight # 0)))

ZeroScores == [d \in Dims |-> Zero]

\* a faulty variant, for mutation analysis: a neutral taste vector for an ingredient without data
NeutralProfile ==
    [ingredient |-> "",
     num_molecules |-> 0,
     flavor_keywords |-> <<>>,
     functional_groups |-> <<>>,
     avg_molecular_weight |-> Zero,
     taste_scores |-> [d \in Dims |-> Q(1, 2)],
     aromatic_intensity |-> Zero,
     volatility_estimate |-> Zero]

\* MolecularProfiler._empty_profile (molecular_profile.py:74-100)
_empty_profile ==
    [ingredient |-> "",
     num_molecules |-> 0,
     flavor_keywords |-> <<>>,
     functional_groups |-> <<>>,
     avg_molecular_weight |-> Zero,
     taste_scores |-> ZeroScores,
     aromatic_intensity |-> Zero,
     volatility_estimate |-> Zero]

\* the profile dict of get_ingredient_profile (molecular_profile.py:55-69)
ProfileRecord(ingredient, molecules, flavor_profile) ==
    [ingredient |-> ingredient,
     num_molecules |-> Len(molecules),
     flavor_keywords |-> flavor_profile.flavor_keywords,
     functional_groups |-> flavor_profile.functional_groups,
     avg_molecular_weight |-> flavor_profile.avg_molecular_weight,
     taste_scores |-> _compute_taste_scores(molecules, flavor_profile),
     aromatic_intensity |-> _compute_aromatic_intensity(molecules),
     volatility_estimate |-> _estimate_volatility(molecules)]

\* the profile that get_ingredient_profile builds from a non-empty molecule
\* list (molecular_profile.py:52-69)
BuildProfile(ingredient, molecules) ==
    ProfileRecord(ingredient, molecules, extract_flavor_profiles(molecules))

\* the ingredient names of the sessions: the ingredients of the stored
\* cocktails, of the modifications, of the ingredient list and of the direct
\* calls of get_ingredient_profile
IngredientNames ==
    {"gin", "Gin", "lemon juice", "sugar", "soda water", "honey", "fiber",
     "simple syrup", "agave syrup", "grenadine", "maple syrup",
     "lime juice", "grapefruit juice", "vinegar", "citric acid",
     "angostura bitters", "campari", "aperol", "coffee", "tonic water",
     "mint", "basil", "rosemary", "thyme", "bitters", "orange bitters",
     "olive brine", "celery", "tomato juice", "worcestershire sauce"}

\* what get_ingredient_profile does with the molecules found
\* (molecular_profile.py:47-72): the molecules and the profile
ProfileOf(ingredient, molecules) ==
    [molecules |-> molecules,
     profile |-> IF molecules = <<>> THEN _empty_profile
                 ELSE BuildProfile(ingredient, molecules)]

\* what get_ingredient_profile computes on a cache miss
ComputeProfile(version, profiler, ingredient) ==
    ProfileOf(ingredient,
              get_molecules_for_ingredient(version, profiler, ingredient))

\* ComputeProfile is a function of the loader and the name alone: its values
\* for the names of the sessions, computed once
ComputedProfiles ==
    [version \in Versions, enhanced \in BOOLEAN,
     ingredient \in IngredientNames |->
        ComputeProfile(version, IF enhanced THEN "optimizer" ELSE "analyzer",
                       ingredient)]

\* a faulty variant, for mutation analysis: the profile is stored in the
\* cache before its scores are filled in
CacheMissStoresUnscored(cache, ingredient, computed) ==
    [profile |-> computed.profile,
     cache |-> IF computed.molecules = <<>> THEN cache
               ELSE [x \in DOMAIN cache \cup {ingredient} |->
                        IF x = ingredient
                        THEN [computed.profile EXCEPT
                                 !.taste_scores = ZeroScores]
                        ELSE cache[x]],
     looked_up |-> TRUE]

\* the end of get_ingredient_profile on a cache miss
\* (molecular_profile.py:49-72): a profile with molecules is stored under
\* the name as given, an empty profile is not stored
CacheMiss(cache, ingredient, computed) ==
    [profile |-> computed.profile,
     cache |-> IF computed.molecules = <<>> THEN cache
               ELSE [x \in DOMAIN cache \cup {ingredient} |->
                        IF x = ingredient THEN computed.profile
                        ELSE cache[x]],
     looked_up |-> TRUE]

\* MolecularProfiler.get_ingredient_profile (molecular_profile.py:32-72) of
\* one profiler with the given cache: the profile returned and the cache left
get_ingredient_profile(version, profiler, cache, ingredient) ==
    IF ingredient \in DOMAIN cache
    THEN [profile |-> cache[ingredient], cache |-> cache, looked_up |-> FALSE]
    ELSE CacheMiss(cache, ingredient,
                   ComputedProfiles[version, Enhanced(version, profiler),
                                    ingredient])

\* one pass of a loop over ingredients: the profile fetched is appended
Fetched(got, fetched) ==
    [profiles |-> Append(fetched.profiles, got.profile), cache |-> got.cache]

\* the loop over the ingredients from the profiles fetched so far on: the
\* next ingredient is fetched through the profiler until each has a profile
RECURSIVE ProfileFrom(_, _, _, _)
ProfileFrom(version, profiler, ingredients, fetched) ==
    IF Len(fetched.profiles) >= Len(ingredients) THEN fetched
    ELSE ProfileFrom(
             version, profiler, ingredients,
             Fetched(get_ingredient_profile(
                         version, profiler, fetched.cache,
                         ingredients[Len(fetched.profiles) + 1]),
                     fetched))

\* the profiles of a list of ingredients fetched in order through one
\* profiler: the list of profiles and the cache left
ProfileAll(version, profiler, cache, ingredients) ==
    ProfileFrom(version, profiler, ingredients,
                [profiles |-> <<>>, cache |-> cache])

-----------------------------------------------------------------------------
(* CocktailAnalyzer.  A call returns [status |-> "returned", value |-> v]   *)
(* or, when the Python code raises, [status |-> "raised", exc |-> name].    *)
(* A dict is a function from its keys; the empty dict {} is <<>>.           *)

Returned(v) == [status |-> "returned", value |-> v]

Raised(e) == [status |-> "raised", exc |-> e]

\* [m.get('value', 30.0) for m in measures]; every stored measure and every
\* measure that modify_cocktail appends carries a 'value'
Volumes(measures) == [i \in 1..Len(measures) |-> measures[i].value]

\* a faulty variant, for mutation analysis: the total taken as the number of ingredients
TotalByCount(volumes) == QInt(Len(volumes))

\* total_volume = sum(volumes) (molecular_profile.py:335)
TotalVolume(volumes) == QSumSeq(volumes)

\* the volumes after the zero-total fallback (molecular_profile.py:337-339)
EffectiveVolumes(profiles, given) ==
    IF TotalVolume(given) = Zero THEN [i \in 1..Len(profiles) |-> One]
    ELSE given

\* a faulty variant, for mutation analysis: the total counts only the
\* volumes of the ingredients that have molecules
EffectiveTotalOfScored(profiles, given) ==
    IF TotalVolume(given) = Zero THEN QInt(Len(profiles))
    ELSE QSumSeq([i \in 1..Min(Len(profiles), Len(given)) |->
                     IF profiles[i].num_molecules > 0 THEN given[i]
                     ELSE Zero])

\* total_volume after the zero-total fallback (molecular_profile.py:337-339)
EffectiveTotal(profiles, given) ==
    IF TotalVolume(given) = Zero THEN QInt(Len(profiles))
    ELSE TotalVolume(given)

\* a faulty variant, for mutation analysis: weights that are the raw volumes in ml, not divided by the total
WeightsUnnormalized(profiles, measures) ==
    [i \in 1..Min(Len(profiles), Len(measures)) |-> measures[i].value]

\* weight = volume / total_volume over zip(profiles, volumes)
ZipWeights(profiles, volumes, total_volume) ==
    [i \in 1..Min(Len(profiles), Len(volumes)) |->
        QDiv(volumes[i], total_volume)]

\* the weights volume / total_volume of the loop over zip(profiles, volumes)
\* (molecular_profile.py:334-346)
Weights(profiles, measures) ==
    ZipWeights(profiles,
               EffectiveVolumes(profiles, Volumes(measures)),
               EffectiveTotal(profiles, Volumes(measures)))

\* a faulty variant, for mutation analysis: the scores are summed without their weights
AggregateTasteUnweighted(profiles, weights) ==
    [dim \in Dims |->
        QSumSeq([i \in 1..Len(weights) |-> profiles[i].taste_scores[dim]])]

\* aggregated_taste (molecular_profile.py:342-348)
AggregateTaste(profiles, weights) ==
    [dim \in Dims |->
        QSumSeq([i \in 1..Len(weights) |->
                    QMul(profiles[i].taste_scores[dim], weights[i])])]

\* the sum of the weights that np.average is given: the volumes of the
\* first n profiles that have molecules
WeightSum(profiles, volumes, n) ==
    QSumSeq([i \in 1..n |->
                IF profiles[i].num_molecules > 0 THEN volumes[i] ELSE Zero])

\* the weighted sum of the molecular weights of those profiles
WeightedSum(profiles, volumes, n) ==
    QSumSeq([i \in 1..n |->
                IF profiles[i].num_molecules > 0
                THEN QMul(profiles[i].avg_molecular_weight, volumes[i])
                ELSE Zero])

\* np.average(a, weights=w) (molecular_profile.py:364-366) and the dict
\* returned: a is taken over all profiles with molecules, w over the first
\* n; np.average raises when their lengths differ and when the weights sum
\* to zero
Aggregated(profiles, volumes, total_volume, weights, wsum) ==
    IF \E i \in (Len(weights) + 1)..Len(profiles) :
           profiles[i].num_molecules > 0
    THEN Raised("TypeError")
    ELSE IF wsum = Zero THEN Raised("ZeroDivisionError")
    ELSE Returned(
             [taste_scores |-> AggregateTaste(profiles, weights),
              avg_molecular_weight |->
                  QDiv(WeightedSum(profiles, volumes, Len(weights)), wsum),
              total_volume |-> total_volume])

\* _aggregate_profiles for a non-empty list of profiles and the volumes
\* after the fallback
AggregateVolumes(profiles, measures, volumes) ==
    Aggregated(profiles, volumes,
               EffectiveTotal(profiles, Volumes(measures)),
               Weights(profiles, measures),
               WeightSum(profiles, volumes,
                         Min(Len(profiles), Len(volumes))))

\* CocktailAnalyzer._aggregate_profiles (molecular_profile.py:319-374); the
\* keyword and functional-group tables of the result are left out
_aggregate_profiles(profiles, measures) ==
    IF profiles = <<>> THEN Returned(<<>>)
    ELSE AggregateVolumes(profiles, measures,
                          EffectiveVolumes(profiles, Volumes(measures)))

\* min(len(all_keywords) / 30, 1) and min(len(all_groups) / 10, 1),
\* averaged (molecular_profile.py:428-434)
ComplexityOf(keywords, groups) ==
    QDiv(QAdd(QMin(Q(keywords, 30), One), QMin(Q(groups, 10), One)),
         QInt(2))

\* CocktailAnalyzer._compute_complexity (molecular_profile.py:402-434)
_compute_complexity(profiles) ==
    IF profiles = <<>> THEN Zero
    ELSE ComplexityOf(
             Cardinality(UNION {DOMAIN profiles[i].flavor_keywords :
                                    i \in 1..Len(profiles)}),
             Cardinality(UNION {DOMAIN profiles[i].functional_groups :
                                    i \in 1..Len(profiles)}))

\* CocktailAnalyzer._find_cocktail (molecular_profile.py:301-317): the
\* position of the first cocktail of that name, 0 for None
_find_cocktail(stored, name) ==
    IF \E i \in 1..Len(stored) : Lower(stored[i].name) = Lower(name)
    THEN CHOOSE i \in 1..Len(stored) :
             /\ Lower(stored[i].name) = Lower(name)
             /\ \A j \in 1..(i - 1) : Lower(stored[j].name) # Lower(name)
    ELSE 0

\* the record {'error': ...} of an unknown cocktail name
NotFound(cocktail_name) == [error |-> cocktail_name]

IsError(value) == "error" \in DOMAIN value

\* the analysis dict of analyze_cocktail (molecular_profile.py:287-297)
Analysis(cocktail, ingredient_profiles, aggregated) ==
    [cocktail_name |-> cocktail.name,
     num_ingredients |-> Len(cocktail.ingredients),
     ingredients |-> cocktail.ingredients,
     ingredient_profiles |-> ingredient_profiles,
     aggregated_profile |-> aggregated,
     balance_scores |-> aggregated.taste_scores,
     overall_balance |-> _compute_overall_balance(aggregated.taste_scores),
     complexity_score |-> _compute_complexity(ingredient_profiles)]

\* analyze_cocktail from the aggregation on (molecular_profile.py:285-299):
\* aggregated['taste_scores'] raises KeyError on the empty dict
AnalyzeAggregated(cocktail, fetched, aggregated) ==
    [out |-> IF aggregated.status = "raised" THEN aggregated
             ELSE IF "taste_scores" \notin DOMAIN aggregated.value
             THEN Raised("KeyError")
             ELSE Returned(Analysis(cocktail, fetched.profiles,
                                    aggregated.value)),
     cache |-> fetched.cache]

\* analyze_cocktail from the profiles on (molecular_profile.py:284-299)
AnalyzeFetched(cocktail, fetched) ==
    AnalyzeAggregated(cocktail, fetched,
                      _aggregate_profiles(fetched.profiles,
                                          cocktail.measures))

\* analyze_cocktail for the position that _find_cocktail returned
AnalyzeAt(version, profiler, cache, stored, cocktail_name, idx) ==
    IF idx = 0
    THEN [out |-> Returned(NotFound(cocktail_name)), cache |-> cache]
    ELSE AnalyzeFetched(stored[idx],
                        ProfileAll(version, profiler, cache,
                                   stored[idx].ingredients))

\* CocktailAnalyzer.analyze_cocktail (molecular_profile.py:262-299) of the
\* analyzer that owns the given profiler: the outcome and the cache left
analyze_cocktail(version, profiler, cache, stored, cocktail_name) ==
    AnalyzeAt(version, profiler, cache, stored, cocktail_name,
              _find_cocktail(stored, cocktail_name))

-----------------------------------------------------------------------------
(* CocktailModifier *)

\* mod.get('amount', default)
Amount(mod, default) ==
    IF "amount" \in DOMAIN mod THEN mod.amount ELSE default

\* a faulty variant, for mutation analysis: remove pops the ingredient and
\* leaves its measure, and decrease has no floor at 0
ApplyModificationUnpaired(work, mod) ==
    LET ingredients == work.ingredients
        measures == work.measures
        present == InList(mod.ingredient, ingredients)
        idx == IndexOf(mod.ingredient, ingredients)
    IN  CASE mod.action = "add" ->
                [ingredients |-> Append(ingredients, mod.ingredient),
                 measures |-> Append(measures,
                                     [value |-> Amount(mod, QInt(30))])]
          [] mod.action = "remove" /\ present ->
                [ingredients |-> RemoveAt(ingredients, idx),
                 measures |-> measures]
          [] mod.action = "increase" /\ present ->
                [ingredients |-> ingredients,
                 measures |-> [measures EXCEPT ![idx].value =
                                  QAdd(@, Amount(mod, QInt(10)))]]
          [] mod.action = "decrease" /\ present ->
                [ingredients |-> ingredients,
                 measures |-> [measures EXCEPT ![idx].value =
                                  QSub(@, Amount(mod, QInt(10)))]]
          [] mod.action = "substitute" /\ present ->
                [ingredients |-> [ingredients EXCEPT ![idx] =
                                     mod.substitute_with],
                 measures |-> measures]
          [] OTHER -> work

\* one pass of the loop over the modifications (optimizer.py:61-88) on the
\* working copy [ingredients, measures]
ApplyModification(work, mod) ==
    LET ingredients == work.ingredients
        measures == work.measures
        present == InList(mod.ingredient, ingredients)
        idx == IndexOf(mod.ingredient, ingredients)
    IN  CASE mod.action = "add" ->
                [ingredients |-> Append(ingredients, mod.ingredient),
                 measures |-> Append(measures,
                                     [value |-> Amount(mod, QInt(30))])]
          [] mod.action = "remove" /\ present ->
                [ingredients |-> RemoveAt(ingredients, idx),
                 measures |-> RemoveAt(measures, idx)]
          [] mod.action = "increase" /\ present ->
                [ingredients |-> ingredients,
                 measures |-> [measures EXCEPT ![idx].value =
                                  QAdd(@, Amount(mod, QInt(10)))]]
          [] mod.action = "decrease" /\ present ->
                [ingredients |-> ingredients,
                 measures |-> [measures EXCEPT ![idx].value =
                                  QMax(Zero, QSub(@, Amount(mod, QInt(10))))]]
          [] mod.action = "substitute" /\ present ->
                [ingredients |-> [ingredients EXCEPT ![idx] =
                                     mod.substitute_with],
                 measures |-> measures]
          [] OTHER -> work

\* a faulty variant, for mutation analysis: the modifications are applied
\* from the last to the first
RECURSIVE ApplyAllReversed(_, _)
ApplyAllReversed(work, modifications) ==
    IF modifications = <<>> THEN work
    ELSE ApplyModification(ApplyAllReversed(work, Tail(modifications)),
                           Head(modifications))

\* the working copy after the modifications, applied in list order
RECURSIVE ApplyAll(_, _)
ApplyAll(work, modifications) ==
    IF modifications = <<>> THEN work
    ELSE ApplyAll(ApplyModification(work, Head(modifications)),
                  Tail(modifications))

\* the entry of taste_changes for one dimension (optimizer.py:137-143)
TasteChange(change) ==
    [change |-> change,
     direction |-> IF QLess(Zero, change) THEN "increased"
                   ELSE IF QLess(change, Zero) THEN "decreased"
                   ELSE "unchanged",
     magnitude |-> QAbs(change)]

\* CocktailModifier._analyze_impact (optimizer.py:122-152), without the
\* summary text
_analyze_impact(original_scores, modified_scores, original_balance, modified_balance) ==
    [taste_dimension_changes |->
         [d \in Dims |->
             TasteChange(QSub(modified_scores[d], original_scores[d]))],
     balance_change |-> Gain(modified_balance, original_balance),
     balance_improved |-> Positive(Gain(modified_balance, original_balance))]

\* the result dict of modify_cocktail (optimizer.py:97-118)
Comparison(cocktail_name, modifications, original_analysis, work, fetched, taste_scores, modified_balance) ==
    [original |->
         [name |-> cocktail_name,
          ingredients |-> original_analysis.ingredients,
          taste_scores |-> original_analysis.balance_scores,
          overall_balance |-> original_analysis.overall_balance,
          complexity |-> original_analysis.complexity_score],
     modified |->
         [ingredients |-> work.ingredients,
          taste_scores |-> taste_scores,
          overall_balance |-> modified_balance,
          complexity |-> _compute_complexity(fetched.profiles)],
     modifications_applied |-> modifications,
     impact_analysis |->
         _analyze_impact(original_analysis.balance_scores, taste_scores,
                         original_analysis.overall_balance,
                         modified_balance)]

\* modify_cocktail from the aggregation of the modified cocktail on
\* (optimizer.py:92-120): modified_aggregated['taste_scores'] raises
\* KeyError on the empty dict
ModifyAggregated(cocktail_name, modifications, original, work, fetched, modified_aggregated) ==
    [out |-> IF modified_aggregated.status = "raised"
             THEN modified_aggregated
             ELSE IF "taste_scores" \notin DOMAIN modified_aggregated.value
             THEN Raised("KeyError")
             ELSE Returned(
                      Comparison(
                          cocktail_name, modifications, original.out.value,
                          work, fetched,
                          modified_aggregated.value.taste_scores,
                          _compute_overall_balance(
                              modified_aggregated.value.taste_scores))),
     analyzer_cache |-> original.cache,
     profiler_cache |-> fetched.cache,
     work |-> work]

\* modify_cocktail from the profiles of the modified ingredients on
\* (optimizer.py:91-120)
ModifyFetched(cocktail_name, modifications, original, work, fetched) ==
    ModifyAggregated(cocktail_name, modifications, original, work, fetched,
                     _aggregate_profiles(fetched.profiles, work.measures))

\* modify_cocktail from the working lists on (optimizer.py:90-120)
ModifyWork(version, profiler_cache, cocktail_name, modifications, original, work) ==
    ModifyFetched(cocktail_name, modifications, original, work,
                  ProfileAll(version, "modifier", profiler_cache,
                             work.ingredients))

\* modify_cocktail from the analysis of the original cocktail on
\* (optimizer.py:53-120)
ModifyAnalyzed(version, profiler_cache, stored, cocktail_name, modifications, original) ==
    IF original.out.status = "raised" \/ IsError(original.out.value)
    THEN [out |-> original.out,
          analyzer_cache |-> original.cache,
          profiler_cache |-> profiler_cache,
          work |-> <<>>]
    ELSE ModifyWork(
             version, profiler_cache, cocktail_name, modifications, original,
             ApplyAll(
                 [ingredients |-> original.out.value.ingredients,
                  measures |->
                      stored[_find_cocktail(stored, cocktail_name)].measures],
                 modifications))

\* a faulty variant, for mutation analysis: the loop works on the stored
\* lists themselves
WorkingListsShared(cocktail) == "stored"

\* the objects that modified_ingredients and modified_measures name when the
\* loop over the modifications starts: list.copy() and
\* [m.copy() for m in measures] (optimizer.py:58-59) make new lists and new
\* measure dicts with the contents of the stored ones
WorkingLists(cocktail) == "copies"

\* the cocktails that the analyzer holds after the loop has appended to,
\* popped from and assigned into its lists in place: the stored cocktail
\* changes with them only when the lists are the stored objects
StoredAfter(stored, idx, lists, work) ==
    IF lists = "stored"
    THEN [stored EXCEPT ![idx] = [@ EXCEPT !.ingredients = work.ingredients,
                                           !.measures = work.measures]]
    ELSE stored

\* the end of modify_cocktail together with the stored cocktails it leaves
ModifyStored(stored, idx, modified) ==
    [out |-> modified.out,
     analyzer_cache |-> modified.analyzer_cache,
     profiler_cache |-> modified.profiler_cache,
     work |-> modified.work,
     stored |-> IF modified.work = <<>> THEN stored
                ELSE StoredAfter(stored, idx, WorkingLists(stored[idx]),
                                 modified.work)]

\* CocktailModifier.modify_cocktail (optimizer.py:36-120): the outcome, the
\* caches left in the modifier's analyzer and in the modifier's profiler,
\* the working lists modified_ingredients and modified_measures when the
\* call ends (<<>> when it ends before they are made), and the cocktails
\* that the analyzer holds when the call ends
modify_cocktail(version, analyzer_cache, profiler_cache, stored, cocktail_name, modifications) ==
    ModifyStored(stored, _find_cocktail(stored, cocktail_name),
                 ModifyAnalyzed(version, profiler_cache, stored,
                                cocktail_name, modifications,
                                analyze_cocktail(version, "modifier.analyzer",
                                                 analyzer_cache, stored,
                                                 cocktail_name)))

-----------------------------------------------------------------------------
(* FlavorOptimizer (version 1), FlavorOptimizerV2 (2), FlavorOptimizerV3 (3) *)
(* and FlavorOptimizerV4 (4), which inherits every method of V3 but         *)
(* find_best_modification.                                                   *)
(* The texts 'reason', 'issue' and 'predicted_impact' of a recommendation    *)
(* are left out: an issue is the pair of its dimension and its type.         *)

\* data/processed/ingredients_list.json as loaded by __init__
\* (optimizer.py:202-207)
available_ingredients ==
    <<"gin", "sugar", "honey", "lemon juice", "lime juice", "coffee",
      "mint", "celery", "soda water">>

\* target_map of _identify_imbalances (optimizer.py:273-279): the dimension
\* and the direction of a target, <<>> for 'balanced' and for unknown targets
target_map(target) ==
    CASE target = "sweeter" -> <<"sweet", "increase">>
      [] target = "more_sour" -> <<"sour", "increase">>
      [] target = "less_bitter" -> <<"bitter", "decrease">>
      [] target = "more_aromatic" -> <<"aromatic", "increase">>
      [] OTHER -> <<>>

\* target_balance = None
None == "None"

\* a faulty variant, for mutation analysis: the factor 1 in every version
ThresholdFactorOfOne(version) == One

\* the factor of np.std in the thresholds of _identify_imbalances:
\* 1 in optimizer.py:296,305; 0.7 in optimizer_v2.py:263,270 and
\* optimizer_v3.py:356,363
ThresholdFactor(version) == IF version = 1 THEN One ELSE Q(7, 10)

\* score - mean_score
Deviation(taste_scores, dimension) ==
    QSub(taste_scores[dimension], Mean(Values(taste_scores)))

\* deviation > std_score * k, on exact numbers: the deviation is positive
\* and its square exceeds k^2 times the variance
Exceeds(deviation, variance, k) ==
    /\ QLess(Zero, deviation)
    /\ QLess(QMul(QMul(k, k), variance), QMul(deviation, deviation))

\* score > mean_score + std_score * k
AboveThreshold(taste_scores, dimension, k) ==
    Exceeds(Deviation(taste_scores, dimension),
            Variance(Values(taste_scores)), k)

\* score < mean_score - std_score * k
BelowThreshold(taste_scores, dimension, k) ==
    Exceeds(QNeg(Deviation(taste_scores, dimension)),
            Variance(Values(taste_scores)), k)

\* the imbalance that the auto-detection loop appends for one dimension
Detected(taste_scores, k, dimension) ==
    IF AboveThreshold(taste_scores, dimension, k)
    THEN <<[dimension |-> dimension, type |-> "too_high",
            priority |-> "medium",
            current_value |-> taste_scores[dimension]]>>
    ELSE IF /\ BelowThreshold(taste_scores, dimension, k)
            /\ QLess(taste_scores[dimension], Q(3, 10))
    THEN <<[dimension |-> dimension, type |-> "too_low",
            priority |-> "medium",
            current_value |-> taste_scores[dimension]]>>
    ELSE <<>>

\* the imbalances that the auto-detection loop appends for the dimensions
\* from position i on, in the order of taste_scores.items()
RECURSIVE AutoDetect(_, _, _)
AutoDetect(taste_scores, k, i) ==
    IF i > Len(taste_dimensions) THEN <<>>
    ELSE Detected(taste_scores, k, taste_dimensions[i])
             \o AutoDetect(taste_scores, k, i + 1)

\* the imbalance forced by a target (optimizer.py:281-290)
Targeted(target, entry) ==
    IF target # None /\ entry # <<>>
    THEN <<[dimension |-> entry[1],
            type |-> IF entry[2] = "increase" THEN "too_low" ELSE "too_high",
            priority |-> "high"]>>
    ELSE <<>>

\* _identify_imbalances (optimizer.py:258-312, optimizer_v2.py:240-279,
\* optimizer_v3.py:332-372)
_identify_imbalances(version, taste_scores, target) ==
    Targeted(target, target_map(target))
        \o AutoDetect(taste_scores, ThresholdFactor(version), 1)

\* dimension_ingredients of _find_corrective_ingredients
\* (optimizer.py:331-337, optimizer_v2.py:289-295, optimizer_v3.py:379-385)
dimension_ingredients_v1(dimension) ==
    CASE dimension = "sweet" ->
           <<"simple syrup", "sugar", "honey", "agave syrup", "grenadine",
             "maple syrup">>
      [] dimension = "sour" ->
           <<"lemon juice", "lime juice", "grapefruit juice", "vinegar",
             "citric acid">>
      [] dimension = "bitter" ->
           <<"angostura bitters", "campari", "aperol", "coffee",
             "tonic water">>
      [] dimension = "aromatic" ->
           <<"mint", "basil", "rosemary", "thyme", "bitters",
             "orange bitters">>
      [] dimension = "savory" ->
           <<"olive brine", "celery", "tomato juice",
             "worcestershire sauce">>
      [] OTHER -> <<>>

dimension_ingredients_v2(dimension) ==
    CASE dimension = "sweet" ->
           <<"simple syrup", "honey", "agave syrup", "sugar">>
      [] dimension = "sour" ->
           <<"lemon juice", "lime juice", "grapefruit juice">>
      [] dimension = "bitter" -> <<"angostura bitters", "campari", "coffee">>
      [] dimension = "aromatic" -> <<"mint", "basil", "bitters">>
      [] dimension = "savory" -> <<"celery", "tomato juice">>
      [] OTHER -> <<>>

dimension_ingredients_v3(dimension) ==
    CASE dimension = "sweet" ->
           <<"simple syrup", "honey", "agave syrup", "sugar", "maple syrup">>
      [] dimension = "sour" ->
           <<"lemon juice", "lime juice", "grapefruit juice">>
      [] dimension = "bitter" ->
           <<"angostura bitters", "campari", "aperol", "coffee">>
      [] dimension = "aromatic" ->
           <<"mint", "basil", "bitters", "orange bitters">>
      [] dimension = "savory" -> <<"celery", "tomato juice">>
      [] OTHER -> <<>>

dimension_ingredients(version, dimension) ==
    IF version = 1 THEN dimension_ingredients_v1(dimension)
    ELSE IF version = 2 THEN dimension_ingredients_v2(dimension)
    ELSE dimension_ingredients_v3(dimension)

\* a faulty variant, for mutation analysis: every dimension contrasts with
\* itself
ContrastingItself(dimension) == dimension

\* the table 'contrasting' (optimizer.py:348-355, optimizer_v2.py:301-308,
\* optimizer_v3.py:390-397)
contrasting(dimension) == IF dimension = "sweet" THEN "sour" ELSE "sweet"

\* the candidates of an issue before any filter
candidate_ingredients(version, dimension, issue_type) ==
    IF issue_type = "too_low" THEN dimension_ingredients(version, dimension)
    ELSE dimension_ingredients(version, contrasting(dimension))

\* a faulty variant, for mutation analysis: the names are compared as given
NotExistingAsGiven(ingredient, existing_ingredients) ==
    \A i \in 1..Len(existing_ingredients) :
        existing_ingredients[i] # ingredient

\* ing.lower() not in [e.lower() for e in existing_ingredients]
NotExisting(ingredient, existing_ingredients) ==
    \A i \in 1..Len(existing_ingredients) :
        Lower(existing_ingredients[i]) # Lower(ingredient)

\* the filter of the candidates: in version 1 the ingredient list and the
\* cocktail's ingredients (optimizer.py:359-361), in versions 2 and 3 the
\* cocktail's ingredients alone (optimizer_v2.py:313, optimizer_v3.py:402)
available_candidates(version, candidates, existing_ingredients) ==
    SelectSeq(candidates,
              LAMBDA ing :
                  /\ version = 1 => InList(ing, available_ingredients)
                  /\ NotExisting(ing, existing_ingredients))

\* one turn of the loop over the candidates: the suggestion is appended
\* when the profile has molecules
Scored(got, ingredient, scored) ==
    [suggestions |->
         IF got.profile.num_molecules = 0 THEN scored.suggestions
         ELSE Append(scored.suggestions,
                     [action |-> "add",
                      ingredient |-> ingredient,
                      amount |-> QInt(15),
                      ingredient_taste_profile |-> got.profile.taste_scores]),
     cache |-> got.cache,
     next |-> scored.next + 1]

\* the loop over the candidates from candidate scored.next on
RECURSIVE ScoreFrom(_, _, _)
ScoreFrom(version, candidates, scored) ==
    IF scored.next > Len(candidates) THEN scored
    ELSE ScoreFrom(version, candidates,
                   Scored(get_ingredient_profile(version, "optimizer",
                                                 scored.cache,
                                                 candidates[scored.next]),
                          candidates[scored.next], scored))

\* the loop that profiles the candidates through the optimizer's own
\* profiler and keeps those with molecules: the suggestions in candidate
\* order and the cache left
ScoreCandidates(version, cache, candidates) ==
    ScoreFrom(version, candidates,
              [suggestions |-> <<>>, cache |-> cache, next |-> 1])

\* whether list.sort puts suggestion x after suggestion y when x follows y
\* in the list: the sort is stable, so only a strict difference of the keys
\* moves x in front of y
StaysAfter(x, y, dimension, reverse) ==
    IF reverse
    THEN QLeq(x.ingredient_taste_profile[dimension],
              y.ingredient_taste_profile[dimension])
    ELSE QLeq(y.ingredient_taste_profile[dimension],
              x.ingredient_taste_profile[dimension])

\* the largest member of a set of positions, 0 for the empty set
LastOf(positions) ==
    IF positions = {} THEN 0
    ELSE CHOOSE i \in positions : \A j \in positions : j <= i

InsertAt(sorted, x, pos) ==
    SubSeq(sorted, 1, pos) \o <<x>> \o SubSeq(sorted, pos + 1, Len(sorted))

\* x goes behind the last entry that it stays after
Insert(sorted, x, dimension, reverse) ==
    InsertAt(sorted, x,
             LastOf({i \in 1..Len(sorted) :
                        StaysAfter(x, sorted[i], dimension, reverse)}))

\* the sort from the sorted prefix on: the next suggestion is inserted
\* until all are
RECURSIVE SortFrom(_, _, _, _)
SortFrom(suggestions, sorted, dimension, reverse) ==
    IF Len(sorted) >= Len(suggestions) THEN sorted
    ELSE SortFrom(suggestions,
                  Insert(sorted, suggestions[Len(sorted) + 1], dimension,
                         reverse),
                  dimension, reverse)

\* suggestions.sort(key=lambda x: x['ingredient_taste_profile'][dimension],
\* reverse=...): a stable insertion sort
SortSuggestions(suggestions, dimension, reverse) ==
    SortFrom(suggestions, <<>>, dimension, reverse)

\* list[:n]
Take(list, n) == SubSeq(list, 1, Min(n, Len(list)))

\* the sort and the cut suggestions[:5] that end
\* _find_corrective_ingredients
Corrective(scored, dimension, issue_type) ==
    [suggestions |->
         Take(SortSuggestions(scored.suggestions, dimension,
                              issue_type = "too_low"), 5),
     cache |-> scored.cache]

\* _find_corrective_ingredients (optimizer.py:314-389,
\* optimizer_v2.py:281-336, optimizer_v3.py:374-419): the suggestions
\* returned and the cache left in the optimizer's profiler
_find_corrective_ingredients(version, cache, dimension, issue_type, existing_ingredients) ==
    Corrective(
        ScoreCandidates(
            version, cache,
            available_candidates(
                version,
                candidate_ingredients(version, dimension, issue_type),
                existing_ingredients)),
        dimension, issue_type)

\* round(x, 1) for x >= 0: the nearest multiple of 1/10, a tie to the even
\* one
Round1(x) ==
    IF 2 * ((10 * x.n) % x.d) > x.d
    THEN Q((10 * x.n) \div x.d + 1, 10)
    ELSE IF 2 * ((10 * x.n) % x.d) = x.d /\ ((10 * x.n) \div x.d) % 2 = 1
    THEN Q((10 * x.n) \div x.d + 1, 10)
    ELSE Q((10 * x.n) \div x.d, 10)

\* a faulty variant, for mutation analysis: the steps of the balance factor
\* taken above their thresholds instead of from them on
BalanceFactorAbove(current_balance) ==
    IF QLess(Q(98, 100), current_balance) THEN Zero
    ELSE IF QLess(Q(95, 100), current_balance) THEN Q(1, 4)
    ELSE IF QLess(Q(90, 100), current_balance) THEN Q(1, 2)
    ELSE IF QLess(Q(80, 100), current_balance) THEN Q(3, 4)
    ELSE One

\* balance_factor of _calculate_adaptive_amount (optimizer_v2.py:108-117)
balance_factor(current_balance) ==
    IF QLeq(Q(98, 100), current_balance) THEN Zero
    ELSE IF QLeq(Q(95, 100), current_balance) THEN Q(1, 4)
    ELSE IF QLeq(Q(90, 100), current_balance) THEN Q(1, 2)
    ELSE IF QLeq(Q(80, 100), current_balance) THEN Q(3, 4)
    ELSE One

\* severity_factor = min(imbalance_magnitude / 0.3, 2.0)
severity_factor(imbalance_magnitude) ==
    QMin(QDiv(imbalance_magnitude, Q(3, 10)), QInt(2))

\* _calculate_adaptive_amount (optimizer_v2.py:93-129,
\* optimizer_v3.py:292-312) with base_percentage = 0.12
_calculate_adaptive_amount(current_balance, imbalance_magnitude, total_volume) ==
    Round1(QMax(QInt(5),
                QMin(QMul(QMul(QMul(total_volume, Q(12, 100)),
                               balance_factor(current_balance)),
                          severity_factor(imbalance_magnitude)),
                     QInt(30))))

\* the largest member of a non-empty set of numbers
QMaxOf(numbers) == CHOOSE m \in numbers : \A x \in numbers : QLeq(x, m)

\* max(abs(score - mean) for score in taste_scores.values())
MaxDeviation(taste_scores) ==
    QMaxOf({QAbs(Deviation(taste_scores, dimension)) : dimension \in Dims})

\* a faulty variant, for mutation analysis: changes are recommended whatever
\* the balance is
ShouldAlwaysRecommend(balance_score, taste_scores) ==
    <<TRUE, "Cocktail has imbalances that could be improved">>

\* should_recommend_changes (optimizer_v2.py:131-161) and
\* _should_recommend_changes (optimizer_v3.py:314-330)
_should_recommend_changes(balance_score, taste_scores) ==
    IF QLeq(Q(98, 100), balance_score)
    THEN <<FALSE, "Cocktail is already excellently balanced! No changes recommended.">>
    ELSE IF /\ QLeq(Q(95, 100), balance_score)
            /\ QLess(MaxDeviation(taste_scores), Q(1, 4))
    THEN <<FALSE, "Cocktail is very well balanced. Only minor refinements possible.">>
    ELSE IF QLeq(Q(85, 100), balance_score)
    THEN <<TRUE, "Good cocktail with room for refinement">>
    ELSE <<TRUE, "Cocktail has imbalances that could be improved">>

\* the number of suggestions kept per imbalance: suggestions[:3]
\* (optimizer.py:243, optimizer_v2.py:215), suggestions[:5]
\* (optimizer_v3.py:267)
SuggestionsPerIssue(version) == IF version \in {3, 4} THEN 5 ELSE 3

\* the recommendations appended for one imbalance
RecommendationsOf(version, imbalance, kept, adaptive_amount) ==
    [i \in 1..Len(kept) |->
        [issue |-> [dimension |-> imbalance.dimension,
                    type |-> imbalance.type],
         recommendation |->
             IF version = 1 THEN kept[i]
             ELSE [kept[i] EXCEPT !.amount = adaptive_amount]]]

\* one turn of the loop over the imbalances
Recommended(version, imbalance, analysis, found, made) ==
    [recommendations |->
         made.recommendations \o
         RecommendationsOf(
             version, imbalance,
             Take(found.suggestions, SuggestionsPerIssue(version)),
             _calculate_adaptive_amount(
                 analysis.overall_balance,
                 QAbs(Deviation(analysis.balance_scores, imbalance.dimension)),
                 analysis.aggregated_profile.total_volume)),
     cache |-> found.cache,
     next |-> made.next + 1]

\* the loop over the imbalances from imbalance made.next on
RECURSIVE RecommendFrom(_, _, _, _)
RecommendFrom(version, imbalances, analysis, made) ==
    IF made.next > Len(imbalances) THEN made
    ELSE RecommendFrom(
             version, imbalances, analysis,
             Recommended(version, imbalances[made.next], analysis,
                         _find_corrective_ingredients(
                             version, made.cache,
                             imbalances[made.next].dimension,
                             imbalances[made.next].type,
                             analysis.ingredients),
                         made))

\* the loop over the imbalances of recommend_improvements
\* (optimizer.py:234-248, optimizer_v2.py:203-230, optimizer_v3.py:256-281):
\* the recommendations and the cache left in the optimizer's profiler
Recommendations(version, cache, imbalances, analysis) ==
    RecommendFrom(version, imbalances, analysis,
                  [recommendations |-> <<>>, cache |-> cache, next |-> 1])

\* the dict returned when changes are recommended (optimizer.py:250-256)
Report(cocktail_name, analysis, imbalances, recommendations) ==
    [cocktail |-> cocktail_name,
     current_balance |-> analysis.balance_scores,
     overall_balance_score |-> analysis.overall_balance,
     identified_issues |-> imbalances,
     recommendations |-> recommendations]

\* the dict returned when no change is recommended
\* (optimizer_v2.py:188-196, optimizer_v3.py:242-250)
NoChanges(cocktail_name, analysis, message) ==
    [cocktail |-> cocktail_name,
     current_balance |-> analysis.balance_scores,
     overall_balance_score |-> analysis.overall_balance,
     message |-> message,
     identified_issues |-> <<>>,
     recommendations |-> <<>>]

\* recommend_improvements from the loop over the imbalances on
RecommendIdentified(version, optimizer_cache, cocktail_name, analyzed, imbalances, made) ==
    [out |-> Returned(Report(cocktail_name, analyzed.out.value, imbalances,
                             made.recommendations)),
     analyzer_cache |-> analyzed.cache,
     optimizer_cache |-> made.cache]

\* recommend_improvements from the identification of the imbalances on
RecommendFor(version, optimizer_cache, cocktail_name, analyzed, imbalances) ==
    RecommendIdentified(version, optimizer_cache, cocktail_name, analyzed,
                        imbalances,
                        Recommendations(version, optimizer_cache, imbalances,
                                        analyzed.out.value))

\* recommend_improvements from the threshold check on
RecommendChecked(version, optimizer_cache, cocktail_name, target_balance, analyzed, should) ==
    IF version # 1 /\ ~should[1]
    THEN [out |-> Returned(NoChanges(cocktail_name, analyzed.out.value,
                                     should[2])),
          analyzer_cache |-> analyzed.cache,
          optimizer_cache |-> optimizer_cache]
    ELSE RecommendFor(version, optimizer_cache, cocktail_name, analyzed,
                      _identify_imbalances(version,
                                           analyzed.out.value.balance_scores,
                                           target_balance))

\* recommend_improvements from the analysis on
RecommendAnalyzed(version, optimizer_cache, cocktail_name, target_balance, analyzed) ==
    IF analyzed.out.status = "raised" \/ IsError(analyzed.out.value)
    THEN [out |-> analyzed.out,
          analyzer_cache |-> analyzed.cache,
          optimizer_cache |-> optimizer_cache]
    ELSE RecommendChecked(
             version, optimizer_cache, cocktail_name, target_balance,
             analyzed,
             _should_recommend_changes(analyzed.out.value.overall_balance,
                                       analyzed.out.value.balance_scores))

\* recommend_improvements (optimizer.py:209-256, optimizer_v2.py:163-238,
\* optimizer_v3.py:225-290): the outcome and the caches left in the
\* analyzer's profiler and in the optimizer's own profiler
recommend_improvements(version, analyzer_cache, optimizer_cache, stored, cocktail_name, target_balance) ==
    RecommendAnalyzed(version, optimizer_cache, cocktail_name, target_balance,
                      analyze_cocktail(version, "analyzer", analyzer_cache,
                                       stored, cocktail_name))

\* the modification that find_best_modification tests for a recommendation
\* (optimizer_v3.py:178-182)
Modification(rec) ==
    <<[action |-> "add", ingredient |-> rec.ingredient,
       amount |-> rec.amount]>>

\* the candidate appended for a tested recommendation
\* (optimizer_v3.py:193-202)
Candidate(rank, rec, original_balance, new_balance) ==
    [rank |-> rank,
     modification |-> Modification(rec),
     ingredient |-> rec.ingredient,
     amount |-> rec.amount,
     original_balance |-> original_balance,
     new_balance |-> new_balance,
     improvement |-> Gain(new_balance, original_balance)]

\* one turn of the loop that tests the recommendations: an exception of
\* modify_cocktail is swallowed, an error dict is skipped
Tested(got, rec, original_balance, tests) ==
    [candidates |->
         IF got.out.status = "returned" /\ ~IsError(got.out.value)
         THEN Append(tests.candidates,
                     Candidate(tests.next, rec, original_balance,
                               got.out.value.modified.overall_balance))
         ELSE tests.candidates,
     analyzer_cache |-> got.analyzer_cache,
     profiler_cache |-> got.profiler_cache,
     stored |-> got.stored,
     next |-> tests.next + 1]

\* the loop over the recommendations from rank tests.next on
RECURSIVE TestFrom(_, _, _, _)
TestFrom(cocktail_name, original_balance, recs, tests) ==
    IF tests.next > Len(recs) THEN tests
    ELSE TestFrom(
             cocktail_name, original_balance, recs,
             Tested(modify_cocktail(
                        3, tests.analyzer_cache, tests.profiler_cache,
                        tests.stored, cocktail_name,
                        Modification(recs[tests.next].recommendation)),
                    recs[tests.next].recommendation, original_balance,
                    tests))

\* the loop of find_best_modification that tests the recommendations
\* (optimizer_v3.py:177-207): the candidates, the caches left in the
\* modifier and the cocktails left in its analyzer
TestCandidates(analyzer_cache, profiler_cache, stored, cocktail_name, original_balance, recs) ==
    TestFrom(cocktail_name, original_balance, recs,
             [candidates |-> <<>>, analyzer_cache |-> analyzer_cache,
              profiler_cache |-> profiler_cache, stored |-> stored,
              next |-> 1])

\* a faulty variant, for mutation analysis: the last candidate of the
\* largest improvement
LastBestCandidate(candidates) ==
    candidates[CHOOSE i \in 1..Len(candidates) :
        /\ \A j \in 1..Len(candidates) :
               GainLeq(candidates[j].improvement, candidates[i].improvement)
        /\ \A j \in (i + 1)..Len(candidates) :
               ~GainLeq(candidates[i].improvement, candidates[j].improvement)]

\* max(candidates, key=lambda x: x['improvement']): the first candidate of
\* the largest improvement
BestCandidate(candidates) ==
    candidates[CHOOSE i \in 1..Len(candidates) :
        /\ \A j \in 1..Len(candidates) :
               GainLeq(candidates[j].improvement, candidates[i].improvement)
        /\ \A j \in 1..(i - 1) :
               ~GainLeq(candidates[i].improvement, candidates[j].improvement)]

\* the caches of the four profilers after recommend_improvements
AfterRecommend(caches, recommended) ==
    [caches EXCEPT !["analyzer"] = recommended.analyzer_cache,
                   !["optimizer"] = recommended.optimizer_cache]

\* find_best_modification from the tests on (optimizer_v3.py:206-223)
BestTested(cocktail_name, original_balance, caches, tests) ==
    [out |->
         IF tests.candidates = <<>>
         THEN Returned([cocktail |-> cocktail_name,
                        best_modification |-> None,
                        message |-> "Could not test any modifications"])
         ELSE Returned([cocktail |-> cocktail_name,
                        original_balance |-> original_balance,
                        best_modification |-> BestCandidate(tests.candidates),
                        all_candidates |-> tests.candidates,
                        tested_count |-> Len(tests.candidates)]),
     caches |-> [caches EXCEPT !["modifier.analyzer"] = tests.analyzer_cache,
                               !["modifier"] = tests.profiler_cache],
     stored |-> tests.stored]

\* find_best_modification from the recommendations on
\* (optimizer_v3.py:169-223) with max_candidates = 5
BestRecommended(caches, stored, cocktail_name, original_balance, recommended) ==
    IF recommended.out.status = "raised"
    THEN [out |-> recommended.out,
          caches |-> AfterRecommend(caches, recommended),
          stored |-> stored]
    ELSE IF \/ IsError(recommended.out.value)
            \/ recommended.out.value.recommendations = <<>>
    THEN [out |-> Returned(
                      [cocktail |-> cocktail_name,
                       best_modification |-> None,
                       message |->
                           IF "message" \in DOMAIN recommended.out.value
                           THEN recommended.out.value.message
                           ELSE "No recommendations available"]),
          caches |-> AfterRecommend(caches, recommended),
          stored |-> stored]
    ELSE BestTested(
             cocktail_name, original_balance,
             AfterRecommend(caches, recommended),
             TestCandidates(caches["modifier.analyzer"], caches["modifier"],
                            stored, cocktail_name, original_balance,
                            Take(recommended.out.value.recommendations, 5)))

\* find_best_modification from the analysis of the original on
BestAnalyzed(caches, stored, cocktail_name, analyzed) ==
    IF analyzed.out.status = "raised" \/ IsError(analyzed.out.value)
    THEN [out |-> analyzed.out,
          caches |-> [caches EXCEPT !["analyzer"] = analyzed.cache],
          stored |-> stored]
    ELSE BestRecommended(
             caches, stored, cocktail_name,
             analyzed.out.value.overall_balance,
             recommend_improvements(3, analyzed.cache, caches["optimizer"],
                                    stored, cocktail_name, None))

\* FlavorOptimizerV3.find_best_modification (optimizer_v3.py:147-223) with
\* max_candidates = 5: the outcome, the caches left in the four profilers
\* and the cocktails left in the analyzers
find_best_modification_v3(caches, stored, cocktail_name) ==
    BestAnalyzed(caches, stored, cocktail_name,
                 analyze_cocktail(3, "analyzer", caches["analyzer"], stored,
                                  cocktail_name))

\* FlavorOptimizerV4.find_best_modification (optimizer_v4.py:164-258): its
\* first statement calls self.analyzer.analyze_cocktail_by_name, a method
\* that CocktailAnalyzer does not have, so the call ends there with an
\* AttributeError
find_best_modification_v4(caches, stored, cocktail_name) ==
    [out |-> Raised("AttributeError"), caches |-> caches, stored |-> stored]

\* optimizer.find_best_modification(cocktail_name) of V3 and V4
find_best_modification(version, caches, stored, cocktail_name) ==
    IF version = 4
    THEN find_best_modification_v4(caches, stored, cocktail_name)
    ELSE find_best_modification_v3(caches, stored, cocktail_name)

-----------------------------------------------------------------------------
(* FlavorOptimizerV4: the plausibility of an ingredient and the ranking of  *)
(* tested candidates.  ingredient_plausibility, the dict loaded from        *)
(* data/processed/ingredient_plausibility.json ({} when the file is         *)
(* missing), is the list of its items [name, score] in the order of the     *)
(* file.                                                                     *)

\* s.strip(), for the blanks at both ends
RECURSIVE Strip(_)
Strip(s) ==
    IF s = "" THEN s
    ELSE IF SubSeq(s, 1, 1) = " " THEN Strip(SubSeq(s, 2, Len(s)))
    ELSE IF SubSeq(s, Len(s), Len(s)) = " "
    THEN Strip(SubSeq(s, 1, Len(s) - 1))
    ELSE s

\* a faulty variant, for mutation analysis: known_ing in ingredient_lower
FuzzyKnownInside(known_ing, ingredient_lower) ==
    Contains(known_ing, ingredient_lower)

\* known_ing in ingredient_lower or ingredient_lower in known_ing
FuzzyKnown(known_ing, ingredient_lower) ==
    Contains(known_ing, ingredient_lower)
        \/ Contains(ingredient_lower, known_ing)

\* the score of the first of the items at the positions, 0.5 when there is
\* none
FirstScore(ingredient_plausibility, positions) ==
    IF positions = {} THEN Q(1, 2)
    ELSE ingredient_plausibility[
             CHOOSE i \in positions : \A j \in positions : i <= j].score

\* the positions of the items that the fuzzy match accepts
FuzzyPositions(ingredient_plausibility, ingredient_lower) ==
    {i \in 1..Len(ingredient_plausibility) :
        FuzzyKnown(ingredient_plausibility[i].name, ingredient_lower)}

\* get_plausibility_score from the lowered and stripped name on
\* (optimizer_v4.py:126-136): the direct match, then the fuzzy match over
\* the items in order, then the neutral 0.5
PlausibilityOf(ingredient_plausibility, ingredient_lower) ==
    IF \E i \in 1..Len(ingredient_plausibility) :
           ingredient_plausibility[i].name = ingredient_lower
    THEN FirstScore(ingredient_plausibility,
                    {i \in 1..Len(ingredient_plausibility) :
                        ingredient_plausibility[i].name = ingredient_lower})
    ELSE FirstScore(ingredient_plausibility,
                    FuzzyPositions(ingredient_plausibility, ingredient_lower))

\* FlavorOptimizerV4.get_plausibility_score (optimizer_v4.py:111-136)
get_plausibility_score(ingredient_plausibility, ingredient) ==
    IF ingredient_plausibility = <<>> THEN Q(1, 2)
    ELSE PlausibilityOf(ingredient_plausibility, Strip(Lower(ingredient)))

\* the candidate after the body of the loop of
\* rank_recommendations_with_plausibility (optimizer_v4.py:148-157)
WithCombinedScore(candidate, plausibility) ==
    [ingredient |-> candidate.ingredient,
     improvement |-> candidate.improvement,
     plausibility |-> plausibility,
     combined_score |-> QMul(candidate.improvement, plausibility)]

\* the candidates after the loop
ScoredCandidates(ingredient_plausibility, candidates) ==
    [i \in 1..Len(candidates) |->
        WithCombinedScore(candidates[i],
                          get_plausibility_score(ingredient_plausibility,
                                                 candidates[i].ingredient))]

\* x goes behind the last entry whose key is not smaller than its own
InsertByKey(sorted, x, key) ==
    InsertAt(sorted, x,
             LastOf({i \in 1..Len(sorted) : QLeq(x[key], sorted[i][key])}))

\* sorted(candidates, key=lambda x: x[key], reverse=True) from the sorted
\* prefix on: a stable insertion sort
RECURSIVE SortedFrom(_, _, _)
SortedFrom(candidates, sorted, key) ==
    IF Len(sorted) >= Len(candidates) THEN sorted
    ELSE SortedFrom(candidates,
                    InsertByKey(sorted, candidates[Len(sorted) + 1], key),
                    key)

\* a faulty variant, for mutation analysis: the candidates are sorted by
\* their improvement
SortedByImprovement(candidates) == SortedFrom(candidates, <<>>, "improvement")

\* sorted(candidates, key=lambda x: x['combined_score'], reverse=True)
\* (optimizer_v4.py:160)
SortedByCombinedScore(candidates) ==
    SortedFrom(candidates, <<>>, "combined_score")

\* FlavorOptimizerV4.rank_recommendations_with_plausibility
\* (optimizer_v4.py:138-162): the list returned, and the candidates of the
\* caller, which the loop has given their scores in place
rank_recommendations_with_plausibility(ingredient_plausibility, candidates) ==
    [ranked |-> SortedByCombinedScore(
                    ScoredCandidates(ingredient_plausibility, candidates)),
     candidates |-> ScoredCandidates(ingredient_plausibility, candidates)]

-----------------------------------------------------------------------------
(* The data of a session: the stored cocktails (the records that            *)
(* cocktail_loader.py writes: a name, at least one ingredient, one measure  *)
(* per ingredient with a value >= 0 in ml) and the arguments of the calls   *)

Cocktail(name, ingredients, volumes) ==
    [name |-> name, ingredients |-> ingredients,
     measures |-> [i \in 1..Len(volumes) |-> [value |-> QInt(volumes[i])]]]

StoredCocktails ==
    << Cocktail("Gin Sour", <<"gin", "lemon juice", "sugar">>, <<10, 5, 5>>),
       Cocktail("Highball", <<"soda water">>, <<60>>),
       Cocktail("Garnish", <<"sugar", "soda water">>, <<0, 60>>),
       Cocktail("Dry", <<"Gin", "soda water">>, <<0, 0>>),
       Cocktail("Neat", <<"honey">>, <<30>>) >>

\* the cocktail names that calls are made with: stored names, a stored name
\* in another letter case, and a name that is not stored
CocktailNames ==
    {"Gin Sour", "gin sour", "Highball", "Garnish", "Dry", "Neat", "Negroni"}

Known(stored, name) == _find_cocktail(stored, name) # 0

Add(ingredient, ml) ==
    [action |-> "add", ingredient |-> ingredient, amount |-> QInt(ml)]

Remove(ingredient) == [action |-> "remove", ingredient |-> ingredient]

Increase(ingredient, ml) ==
    [action |-> "increase", ingredient |-> ingredient, amount |-> QInt(ml)]

Decrease(ingredient, ml) ==
    [action |-> "decrease", ingredient |-> ingredient, amount |-> QInt(ml)]

Substitute(ingredient, with) ==
    [action |-> "substitute", ingredient |-> ingredient,
     substitute_with |-> with]

\* the modification lists that the calls of a session are made with
SessionModifications ==
    { <<>>,
      <<Remove("honey")>>,
      <<Substitute("gin", "simple syrup"), Increase("sugar", 10)>>,
      <<Decrease("gin", 60), Add("soda water", 30)>> }

\* the targets that recommend_improvements is called with
SessionTargets == {None, "sweeter"}

\* the ingredient names that get_ingredient_profile is called with directly
SessionIngredients == {"gin", "Gin", "simple syrup", "soda water"}

-----------------------------------------------------------------------------
(* The value of the variables that a specification does not use *)

NoResult == [op |-> "none", status |-> "none"]

NoArgument == [kind |-> "none"]

-----------------------------------------------------------------------------
(* Specification SpecBalance: _compute_overall_balance as a function of     *)
(* every taste vector with entries in {0, 1/TasteGrid, ..., 1}, and of the  *)
(* vector [0.45, 0.45, 0, 0, 0]                                             *)

GridVectors == [Dims -> {Q(k, TasteGrid) : k \in 0..TasteGrid}]

\* the taste vector [0.45, 0.45, 0, 0, 0] in the order of taste_dimensions
HalfAndHalf ==
    [d \in Dims |-> IF d \in {"sweet", "sour"} THEN Q(45, 100) ELSE Zero]

InitBalance ==
    /\ cocktails = <<>>
    /\ profile_cache = <<>>
    /\ result = NoResult
    /\ calls = 0
    /\ \E tv \in GridVectors \cup {HalfAndHalf} :
           argument = [kind |-> "taste_scores", taste_scores |-> tv]

ComputeOverallBalance ==
    /\ result.op = "none"
    /\ result' = [op |-> "_compute_overall_balance", status |-> "returned",
                  overall_balance |->
                      _compute_overall_balance(argument.taste_scores)]
    /\ calls' = calls + 1
    /\ UNCHANGED <<cocktails, profile_cache, argument>>

NextBalance == ComputeOverallBalance

SpecBalance == InitBalance /\ [][NextBalance]_vars

BalanceReturned ==
    result.op = "_compute_overall_balance" /\ result.status = "returned"

-----------------------------------------------------------------------------
(* Specification SpecAggregate: _aggregate_profiles as a function of every  *)
(* list of one to MaxIngredients profiles, drawn from SampleProfiles, with  *)
(* one volume each, drawn from SampleVolumes                                *)

\* bound on the number of ingredients of an aggregated cocktail
MaxIngredients == 3

\* a profile with the given sweet and sour scores, as far as
\* _aggregate_profiles reads one
SampleProfile(ingredient, num_molecules, sweet, sour) ==
    [_empty_profile EXCEPT
        !.ingredient = ingredient,
        !.num_molecules = num_molecules,
        !.avg_molecular_weight = QInt(100 * num_molecules),
        !.taste_scores = [ZeroScores EXCEPT !["sweet"] = sweet,
                                            !["sour"] = sour]]

\* the profiles that are aggregated: A is sweet (0.9), B is sour (0.9), C is
\* both (1 and 0.5), Z has no molecules
SampleProfiles ==
    { SampleProfile("A", 1, Q(9, 10), Zero),
      SampleProfile("B", 1, Zero, Q(9, 10)),
      SampleProfile("C", 2, One, Q(1, 2)),
      SampleProfile("Z", 0, Zero, Zero) }

\* the volumes in ml that are aggregated
SampleVolumes == {0, 25, 50}

InitAggregate ==
    /\ cocktails = <<>>
    /\ profile_cache = <<>>
    /\ result = NoResult
    /\ calls = 0
    /\ \E n \in 1..MaxIngredients :
           \E profiles \in [1..n -> SampleProfiles],
              volumes \in [1..n -> SampleVolumes] :
               argument = [kind |-> "profiles",
                           profiles |-> profiles,
                           measures |-> [i \in 1..n |->
                                            [value |-> QInt(volumes[i])]]]

\* analyzer._aggregate_profiles(profiles, measures); the weights of its loop
\* over zip(profiles, volumes) are kept with the outcome
AggregateProfiles ==
    /\ result.op = "none"
    /\ result' = [op |-> "_aggregate_profiles",
                  weights |-> Weights(argument.profiles, argument.measures)]
                     @@ _aggregate_profiles(argument.profiles,
                                            argument.measures)
    /\ calls' = calls + 1
    /\ UNCHANGED <<cocktails, profile_cache, argument>>

NextAggregate == AggregateProfiles

SpecAggregate == InitAggregate /\ [][NextAggregate]_vars

AggregateEnded == result.op = "_aggregate_profiles"

-----------------------------------------------------------------------------
(* Specification SpecRecommend: recommend_improvements of each optimizer     *)
(* version from the analysis on, as a function of the analysis that          *)
(* analyze_cocktail returned and of the target                               *)

\* the taste vectors of the analyses: the grid vectors whose savory and
\* bitter scores agree and whose aromatic and sour scores agree
AnalyzedVectors ==
    {tv \in GridVectors :
        tv["savory"] = tv["bitter"] /\ tv["aromatic"] = tv["sour"]}

\* the ingredient lists of the analyses
AnalyzedIngredients ==
    { <<"gin", "lemon juice">>, <<"Sugar", "HONEY", "soda water">> }

\* the total volumes in ml of the analyses
AnalyzedVolumes == {100, 400}

\* the targets that recommend_improvements is called with
RecommendTargets == {None, "sweeter", "less_bitter", "balanced"}

\* the analysis dict of a cocktail with the given aggregated taste scores,
\* as far as recommend_improvements reads one
SampleAnalysis(taste_scores, ingredients, total_volume) ==
    [cocktail_name |-> "Sample",
     num_ingredients |-> Len(ingredients),
     ingredients |-> ingredients,
     ingredient_profiles |-> <<>>,
     aggregated_profile |-> [taste_scores |-> taste_scores,
                             avg_molecular_weight |-> Zero,
                             total_volume |-> QInt(total_volume)],
     balance_scores |-> taste_scores,
     overall_balance |-> _compute_overall_balance(taste_scores),
     complexity_score |-> Zero]

InitRecommend ==
    /\ cocktails = <<>>
    /\ profile_cache = <<>>
    /\ result = NoResult
    /\ calls = 0
    /\ \E v \in Versions, t \in RecommendTargets, tv \in AnalyzedVectors,
          i \in AnalyzedIngredients, ml \in AnalyzedVolumes :
           argument = [kind |-> "analysis",
                       version |-> v,
                       target_balance |-> t,
                       analysis |-> SampleAnalysis(tv, i, ml)]

\* optimizer.recommend_improvements from the return of analyze_cocktail on
RecommendForAnalysis ==
    /\ result.op = "none"
    /\ result' = [op |-> "recommend_improvements",
                  cocktail_name |-> "Sample",
                  target_balance |-> argument.target_balance]
                     @@ RecommendAnalyzed(
                            argument.version, <<>>, "Sample",
                            argument.target_balance,
                            [out |-> Returned(argument.analysis),
                             cache |-> <<>>]).out
    /\ calls' = calls + 1
    /\ UNCHANGED <<cocktails, profile_cache, argument>>

NextRecommend == RecommendForAnalysis

SpecRecommend == InitRecommend /\ [][NextRecommend]_vars

RecommendEnded ==
    result.op = "recommend_improvements" /\ result.status = "returned"

-----------------------------------------------------------------------------
(* Specification SpecAmount: _calculate_adaptive_amount as a function of the *)
(* balance, of the magnitude of the imbalance and of the total volume        *)

\* the balances, in hundredths
AmountBalances == {Q(k, 100) : k \in {50, 79, 80, 85, 90, 93, 95, 97, 98, 100}}

\* the magnitudes |score - mean| of an imbalance, in twentieths
AmountMagnitudes == {Q(k, 20) : k \in {0, 2, 3, 5, 6, 10, 16}}

\* the total volumes in ml
AmountVolumes == {0, 20, 55, 101, 150, 300, 1000}

InitAmount ==
    /\ cocktails = <<>>
    /\ profile_cache = <<>>
    /\ result = NoResult
    /\ calls = 0
    /\ \E b \in AmountBalances, m \in AmountMagnitudes, ml \in AmountVolumes :
           argument = [kind |-> "amount",
                       current_balance |-> b,
                       imbalance_magnitude |-> m,
                       total_volume |-> QInt(ml)]

\* optimizer._calculate_adaptive_amount(current_balance,
\* imbalance_magnitude, total_volume)
CalculateAdaptiveAmount ==
    /\ result.op = "none"
    /\ result' = [op |-> "_calculate_adaptive_amount",
                  status |-> "returned",
                  amount |-> _calculate_adaptive_amount(
                                 argument.current_balance,
                                 argument.imbalance_magnitude,
                                 argument.total_volume)]
    /\ calls' = calls + 1
    /\ UNCHANGED <<cocktails, profile_cache, argument>>

NextAmount == CalculateAdaptiveAmount

SpecAmount == InitAmount /\ [][NextAmount]_vars

AmountReturned == result.op = "_calculate_adaptive_amount"

-----------------------------------------------------------------------------
(* Specification SpecModify: the loop of modify_cocktail over the           *)
(* modifications as a function of the working lists and of the list of      *)
(* modifications                                                             *)

\* working lists: those of Gin Sour, lists that name gin twice, a single
\* ingredient, and the empty lists
ModifyWorks ==
    { [ingredients |-> c.ingredients, measures |-> c.measures] :
        c \in { Cocktail("a", <<"gin", "lemon juice", "sugar">>, <<10, 5, 5>>),
                Cocktail("b", <<"gin", "sugar", "gin">>, <<0, 5, 20>>),
                Cocktail("c", <<"honey">>, <<30>>),
                Cocktail("d", <<>>, <<>>) } }

\* single modifications: every action on an ingredient of some list, on an
\* ingredient of none, and on a name in another letter case
ModifySteps ==
    { Add("gin", 10), Add("honey", 20), Remove("gin"), Remove("honey"),
      Increase("sugar", 10), Increase("honey", 5), Decrease("gin", 15),
      Decrease("gin", 5), Decrease("honey", 60), Substitute("gin", "honey"),
      Substitute("honey", "gin"), Substitute("Gin", "sugar") }

\* the lists of at most two modifications
ModifyLists ==
    {<<>>} \cup {<<m>> : m \in ModifySteps}
           \cup {<<m, n>> : m \in ModifySteps, n \in ModifySteps}

InitModify ==
    /\ cocktails = <<>>
    /\ profile_cache = <<>>
    /\ result = NoResult
    /\ calls = 0
    /\ \E w \in ModifyWorks, m \in ModifyLists :
           argument = [kind |-> "modifications", work |-> w,
                       modifications |-> m]

\* the loop `for mod in modifications` of modify_cocktail on the working
\* lists
ApplyModifications ==
    /\ result.op = "none"
    /\ result' = [op |-> "modifications",
                  status |-> "returned",
                  work |-> ApplyAll(argument.work, argument.modifications)]
    /\ calls' = calls + 1
    /\ UNCHANGED <<cocktails, profile_cache, argument>>

NextModify == ApplyModifications

SpecModify == InitModify /\ [][NextModify]_vars

ModificationsApplied == result.op = "modifications"

-----------------------------------------------------------------------------
(* Specification SpecLoop: the loop of modify_cocktail over the             *)
(* modifications, one modification at a time                                *)

\* modifications with a negative amount, beside those of ModifySteps
LoopSteps ==
    ModifySteps \cup {Add("honey", -5), Increase("sugar", -10),
                      Decrease("gin", -5)}

\* the lists of at most two modifications
LoopLists ==
    {<<>>} \cup {<<m>> : m \in LoopSteps}
           \cup {<<m, n>> : m \in LoopSteps, n \in LoopSteps}

\* the working copies are made and the loop is about to take the first
\* modification (optimizer.py:57-60)
InitLoop ==
    /\ cocktails = <<>>
    /\ profile_cache = <<>>
    /\ calls = 0
    /\ \E w \in ModifyWorks, m \in LoopLists :
           /\ argument = [kind |-> "loop", work |-> w, modifications |-> m]
           /\ result = [op |-> "loop", work |-> w, applied |-> 0]

\* one turn of `for mod in modifications` (optimizer.py:61-88)
ApplyNextModification ==
    /\ result.applied < Len(argument.modifications)
    /\ result' = [result EXCEPT
                     !.work = ApplyModification(
                                  @, argument.modifications[result.applied + 1]),
                     !.applied = @ + 1]
    /\ calls' = calls + 1
    /\ UNCHANGED <<cocktails, profile_cache, argument>>

NextLoop == ApplyNextModification

SpecLoop == InitLoop /\ [][NextLoop]_vars

-----------------------------------------------------------------------------
(* Specification SpecRank: rank_recommendations_with_plausibility as a      *)
(* function of the plausibility table and of the tested candidates          *)

\* the plausibility tables: none (the file is missing) and one of four
\* ingredients
PlausibilityTables ==
    { <<>>,
      << [name |-> "gin", score |-> One],
         [name |-> "lemon juice", score |-> Q(7, 10)],
         [name |-> "juice", score |-> Q(2, 5)],
         [name |-> "tomato juice", score |-> Q(1, 10)] >> }

\* the ingredients of the candidates: one of the table in another letter
\* case and with blanks, one that only the fuzzy match finds, one that
\* nothing finds
RankIngredients == {" Gin ", "lime juice", "absinthe"}

\* the improvements of the candidates
RankImprovements == {Q(0 - 1, 10), Zero, Q(1, 20), Q(1, 10)}

RankCandidates ==
    {[ingredient |-> i, improvement |-> g] :
        i \in RankIngredients, g \in RankImprovements}

\* the lists of at most three candidates
RankLists ==
    {<<>>} \cup {<<a>> : a \in RankCandidates}
           \cup {<<a, b>> : a \in RankCandidates, b \in RankCandidates}
           \cup {<<a, b, c>> : a \in RankCandidates, b \in RankCandidates,
                               c \in RankCandidates}

InitRank ==
    /\ cocktails = <<>>
    /\ profile_cache = <<>>
    /\ result = NoResult
    /\ calls = 0
    /\ \E t \in PlausibilityTables, c \in RankLists :
           argument = [kind |-> "candidates", ingredient_plausibility |-> t,
                       candidates |-> c]

\* optimizer.rank_recommendations_with_plausibility(candidates)
RankRecommendationsWithPlausibility ==
    /\ result.op = "none"
    /\ result' = [op |-> "rank_recommendations_with_plausibility",
                  status |-> "returned"]
                 @@ rank_recommendations_with_plausibility(
                        argument.ingredient_plausibility,
                        argument.candidates)
    /\ calls' = calls + 1
    /\ UNCHANGED <<cocktails, profile_cache, argument>>

NextRank == RankRecommendationsWithPlausibility

SpecRank == InitRank /\ [][NextRank]_vars

RankReturned == result.op = "rank_recommendations_with_plausibility"

-----------------------------------------------------------------------------
(* Specification SpecPlausibility: get_plausibility_score as a function of  *)
(* the plausibility table and of the ingredient name                        *)

\* the plausibility tables: none, the table of SpecRank, the same items in
\* another order, and a table with the scores 0 and 1
ScoreTables ==
    PlausibilityTables \cup
    { << [name |-> "tomato juice", score |-> Q(1, 10)],
         [name |-> "juice", score |-> Q(2, 5)],
         [name |-> "lemon juice", score |-> Q(7, 10)],
         [name |-> "gin", score |-> One] >>,
      << [name |-> "vodka", score |-> Zero],
         [name |-> "ginger beer", score |-> One] >> }

\* the names asked for: names of a table as they are, in another letter
\* case and with blanks, names that hold a name of a table, names that a
\* name of a table holds, names that match nothing, and the empty name
ScoreIngredients ==
    { "gin", " Gin ", "GIN", "lemon juice", "Lemon Juice", "juice",
      "tomato juice", "lime juice", "fresh lemon juice", "tomato", "lemon",
      "absinthe", "vodka", "Vodka  ", "ginger", "ginger beer", "beer", "" }

InitPlausibility ==
    /\ cocktails = <<>>
    /\ profile_cache = <<>>
    /\ result = NoResult
    /\ calls = 0
    /\ \E t \in ScoreTables, i \in ScoreIngredients :
           argument = [kind |-> "ingredient", ingredient_plausibility |-> t,
                       ingredient |-> i]

\* optimizer.get_plausibility_score(ingredient)
GetPlausibilityScore ==
    /\ result.op = "none"
    /\ result' = [op |-> "get_plausibility_score",
                  status |-> "returned",
                  score |-> get_plausibility_score(
                                argument.ingredient_plausibility,
                                argument.ingredient)]
    /\ calls' = calls + 1
    /\ UNCHANGED <<cocktails, profile_cache, argument>>

NextPlausibility == GetPlausibilityScore

SpecPlausibility == InitPlausibility /\ [][NextPlausibility]_vars

PlausibilityReturned == result.op = "get_plausibility_score"

-----------------------------------------------------------------------------
(* Specification Spec: one process that has constructed an optimizer       *)
(* (FlavorOptimizer, FlavorOptimizerV2, V3 or V4) and calls its            *)
(* analyzer, its modifier, its profilers and the optimizer itself          *)

\* bound on the number of calls of one session
MaxCalls == 2

Init ==
    /\ cocktails = StoredCocktails
    /\ profile_cache = [p \in Profilers |-> <<>>]
    /\ result = NoResult
    /\ calls = 0
    /\ \E v \in Versions : argument = [kind |-> "session", version |-> v]

version == argument.version

\* the return of get_ingredient_profile: the profile goes to the caller,
\* the cache of the profiler is the one the call left, and looked_up tells
\* whether the call went to the flavor loader for the molecules
ProfileGot(profiler, ingredient, got) ==
    /\ result' = [op |-> "get_ingredient_profile",
                  status |-> "returned",
                  profiler |-> profiler,
                  ingredient |-> ingredient,
                  value |-> got.profile,
                  looked_up |-> got.looked_up]
    /\ profile_cache' = [profile_cache EXCEPT ![profiler] = got.cache]

\* profiler.get_ingredient_profile(ingredient) on one of the profilers
GetIngredientProfile(profiler, ingredient) ==
    /\ calls < MaxCalls
    /\ ProfileGot(profiler, ingredient,
                  get_ingredient_profile(version, profiler,
                                         profile_cache[profiler], ingredient))
    /\ calls' = calls + 1
    /\ UNCHANGED <<cocktails, argument>>

\* the end of analyze_cocktail, by a return or by an exception
Analyzed(cocktail_name, got) ==
    /\ result' = [op |-> "analyze_cocktail",
                  cocktail_name |-> cocktail_name] @@ got.out
    /\ profile_cache' = [profile_cache EXCEPT !["analyzer"] = got.cache]

\* optimizer.analyzer.analyze_cocktail(cocktail_name)
AnalyzeCocktail(cocktail_name) ==
    /\ calls < MaxCalls
    /\ Analyzed(cocktail_name,
                analyze_cocktail(version, "analyzer",
                                 profile_cache["analyzer"], cocktails,
                                 cocktail_name))
    /\ calls' = calls + 1
    /\ UNCHANGED <<cocktails, argument>>

\* the end of modify_cocktail, by a return or by an exception
Modified(cocktail_name, modifications, got) ==
    /\ result' = [op |-> "modify_cocktail",
                  cocktail_name |-> cocktail_name,
                  modifications |-> modifications,
                  work |-> got.work] @@ got.out
    /\ profile_cache' =
           [profile_cache EXCEPT
               !["modifier.analyzer"] = got.analyzer_cache,
               !["modifier"] = got.profiler_cache]
    /\ cocktails' = got.stored

\* optimizer.modifier.modify_cocktail(cocktail_name, modifications)
ModifyCocktail(cocktail_name, modifications) ==
    /\ calls < MaxCalls
    /\ Modified(cocktail_name, modifications,
                modify_cocktail(version, profile_cache["modifier.analyzer"],
                                profile_cache["modifier"], cocktails,
                                cocktail_name, modifications))
    /\ calls' = calls + 1
    /\ UNCHANGED argument

\* the end of recommend_improvements, by a return or by an exception
Improved(cocktail_name, target_balance, got) ==
    /\ result' = [op |-> "recommend_improvements",
                  cocktail_name |-> cocktail_name,
                  target_balance |-> target_balance] @@ got.out
    /\ profile_cache' =
           [profile_cache EXCEPT
               !["analyzer"] = got.analyzer_cache,
               !["optimizer"] = got.optimizer_cache]

\* optimizer.recommend_improvements(cocktail_name, target_balance)
RecommendImprovements(cocktail_name, target_balance) ==
    /\ calls < MaxCalls
    /\ Improved(cocktail_name, target_balance,
                recommend_improvements(version, profile_cache["analyzer"],
                                       profile_cache["optimizer"], cocktails,
                                       cocktail_name, target_balance))
    /\ calls' = calls + 1
    /\ UNCHANGED <<cocktails, argument>>

\* the end of find_best_modification, by a return or by an exception
BestFound(cocktail_name, got) ==
    /\ result' = [op |-> "find_best_modification",
                  cocktail_name |-> cocktail_name] @@ got.out
    /\ profile_cache' = got.caches
    /\ cocktails' = got.stored

\* optimizer.find_best_modification(cocktail_name), a method of
\* FlavorOptimizerV3 and of FlavorOptimizerV4
FindBestModification(cocktail_name) ==
    /\ calls < MaxCalls
    /\ version \in {3, 4}
    /\ BestFound(cocktail_name,
                 find_best_modification(version, profile_cache, cocktails,
                                        cocktail_name))
    /\ calls' = calls + 1
    /\ UNCHANGED argument

Next ==
    \/ \E p \in Profilers, i \in SessionIngredients :
           GetIngredientProfile(p, i)
    \/ \E n \in CocktailNames : AnalyzeCocktail(n)
    \/ \E n \in CocktailNames, m \in SessionModifications :
           ModifyCocktail(n, m)
    \/ \E n \in CocktailNames, t \in SessionTargets :
           RecommendImprovements(n, t)
    \/ \E n \in CocktailNames : FindBestModification(n)

Spec == Init /\ [][Next]_vars

-----------------------------------------------------------------------------
(* Specification SpecLookup: calls of get_molecules_for_ingredient on the   *)
(* flavor loader of one of the profilers of an optimizer                    *)

\* the names looked up: sources of the index as they are and in another
\* letter case, names that hold keywords of the matcher, keys of the spirit
\* tables, and names that nothing matches
LookupNames ==
    { "lemon", "Lemon", "lemon juice", "gin", "Gin", "sugar", "honey",
      "citrus", "lime juice", "soda water", "simple syrup", "mint",
      "fresh mint", "coffee liqueur", "dry vermouth", "tequila",
      "light rum", "bourbon", "fiber", "absinthe" }

InitLookup ==
    /\ cocktails = <<>>
    /\ profile_cache = <<>>
    /\ result = NoResult
    /\ calls = 0
    /\ \E v \in Versions, p \in Profilers :
           argument = [kind |-> "loader", version |-> v, profiler |-> p,
                       molecules_by_source |-> molecules_by_source]

\* profiler.flavor_loader.get_molecules_for_ingredient(ingredient_name)
GetMoleculesForIngredient(ingredient_name) ==
    /\ calls < MaxCalls
    /\ result' = [op |-> "get_molecules_for_ingredient",
                  status |-> "returned",
                  ingredient_name |-> ingredient_name,
                  molecules |-> get_molecules_for_ingredient(
                                    argument.version, argument.profiler,
                                    ingredient_name)]
    /\ argument' = [argument EXCEPT !.molecules_by_source =
                        IndexAfterLookup(@, argument.version,
                                         argument.profiler, ingredient_name)]
    /\ calls' = calls + 1
    /\ UNCHANGED <<cocktails, profile_cache>>

NextLookup == \E n \in LookupNames : GetMoleculesForIngredient(n)

SpecLookup == InitLookup /\ [][NextLookup]_vars

LookupEnded == result.op = "get_molecules_for_ingredient"

-----------------------------------------------------------------------------
(* Specification SpecWorkers: two workers that share one profiler and call  *)
(* get_ingredient_profile at the same time; the steps of one call are       *)
(* interleaved with the steps of the other in every order                   *)

Workers == {1, 2}

WorkerIngredients == {"gin", "Gin", "soda water", "sugar"}

\* the caches the profiler may hold when the workers start: nothing, or the
\* profile of sugar from an earlier call
StartCaches(v, p) ==
    { <<>>,
      [x \in {"sugar"} |-> ComputedProfiles[v, Enhanced(v, p), "sugar"].profile] }

\* a faulty variant, for mutation analysis: the store replaces the whole
\* cache by the one new entry
StoreAlone(cache, ingredient, profile) ==
    [x \in {ingredient} |-> profile]

\* self.profile_cache[ingredient] = profile (molecular_profile.py:71)
StoreProfile(cache, ingredient, profile) ==
    [x \in DOMAIN cache \cup {ingredient} |->
        IF x = ingredient THEN profile ELSE cache[x]]

InitWorkers ==
    /\ cocktails = <<>>
    /\ calls = 0
    /\ result = [op |-> "workers", returned |-> [w \in Workers |-> None]]
    /\ \E v \in Versions, p \in Profilers :
         \E c \in StartCaches(v, p) :
           \E i \in [Workers -> WorkerIngredients] :
             /\ profile_cache = [q \in Profilers |-> IF q = p THEN c ELSE <<>>]
             /\ argument = [kind |-> "workers", version |-> v,
                            profiler |-> p, ingredient |-> i,
                            started_with |-> c,
                            pc |-> [w \in Workers |-> "check"],
                            missed |-> [w \in Workers |-> FALSE],
                            molecules |-> [w \in Workers |-> <<>>],
                            profile |-> [w \in Workers |-> None]]

SharedCache == profile_cache[argument.profiler]

\* if ingredient in self.profile_cache (molecular_profile.py:42-43): on a
\* hit the cached profile is what the call returns
WorkerCheck(w) ==
    /\ argument.pc[w] = "check"
    /\ argument' =
         IF argument.ingredient[w] \in DOMAIN SharedCache
         THEN [argument EXCEPT !.pc[w] = "return",
                               !.profile[w] = SharedCache[argument.ingredient[w]]]
         ELSE [argument EXCEPT !.pc[w] = "lookup", !.missed[w] = TRUE]
    /\ UNCHANGED <<cocktails, profile_cache, result, calls>>

\* molecules = self.flavor_loader.get_molecules_for_ingredient(ingredient)
\* and the return of the empty profile when there are none
\* (molecular_profile.py:46-50)
WorkerLookup(w) ==
    /\ argument.pc[w] = "lookup"
    /\ LET computed == ComputedProfiles[argument.version,
                                        Enhanced(argument.version,
                                                 argument.profiler),
                                        argument.ingredient[w]]
       IN  argument' =
             IF computed.molecules = <<>>
             THEN [argument EXCEPT !.pc[w] = "return",
                                   !.profile[w] = _empty_profile]
             ELSE [argument EXCEPT !.pc[w] = "build",
                                   !.molecules[w] = computed.molecules]
    /\ UNCHANGED <<cocktails, profile_cache, result, calls>>

\* the profile is built from the molecules (molecular_profile.py:52-69)
WorkerBuild(w) ==
    /\ argument.pc[w] = "build"
    /\ argument' = [argument EXCEPT
                       !.pc[w] = "store",
                       !.profile[w] = BuildProfile(argument.ingredient[w],
                                                   argument.molecules[w])]
    /\ UNCHANGED <<cocktails, profile_cache, result, calls>>

\* self.profile_cache[ingredient] = profile (molecular_profile.py:71)
WorkerStore(w) ==
    /\ argument.pc[w] = "store"
    /\ profile_cache' =
         [profile_cache EXCEPT
            ![argument.profiler] = StoreProfile(@, argument.ingredient[w],
                                                argument.profile[w])]
    /\ argument' = [argument EXCEPT !.pc[w] = "return"]
    /\ UNCHANGED <<cocktails, result, calls>>

\* return profile (molecular_profile.py:43, 50, 72)
WorkerReturn(w) ==
    /\ argument.pc[w] = "return"
    /\ result' = [result EXCEPT !.returned[w] = argument.profile[w]]
    /\ argument' = [argument EXCEPT !.pc[w] = "done"]
    /\ calls' = calls + 1
    /\ UNCHANGED <<cocktails, profile_cache>>

NextWorkers ==
    \E w \in Workers :
        \/ WorkerCheck(w)
        \/ WorkerLookup(w)
        \/ WorkerBuild(w)
        \/ WorkerStore(w)
        \/ WorkerReturn(w)

SpecWorkers == InitWorkers /\ [][NextWorkers]_vars

WorkersDone == \A w \in Workers : argument.pc[w] = "done"

-----------------------------------------------------------------------------
(* Specification SpecDilute: modify_cocktail called once on a modifier that  *)
(* holds one cocktail of two ingredients, with the single modification       *)
(* add(ingredient, amount)                                                   *)

DiluteIngredients == {"gin", "lemon juice", "sugar", "soda water"}

DiluteVolumes == {0, 10, 30}

\* the ingredients added: soda water has no molecules, fiber has a molecule
\* without any taste, honey has a taste
DiluteAdded == {"soda water", "fiber", "honey"}

\* the amounts added, in ml
DiluteAmounts == {Q(1, 2), QInt(20)}

InitDilute ==
    /\ profile_cache = [p \in Profilers |-> <<>>]
    /\ result = NoResult
    /\ calls = 0
    /\ \E a \in DiluteIngredients, b \in DiluteIngredients :
         \E v \in DiluteVolumes, w \in DiluteVolumes :
           /\ cocktails = << Cocktail("Mix", <<a, b>>, <<v, w>>) >>
           /\ \E x \in DiluteAdded, amount \in DiluteAmounts :
                  argument = [kind |-> "dilution", version |-> 1,
                              ingredient |-> x, amount |-> amount]

\* modifier.modify_cocktail('Mix', [{'action': 'add', ...}])
AddToCocktail ==
    /\ result.op = "none"
    /\ ModifyCocktail("Mix", <<[action |-> "add",
                                ingredient |-> argument.ingredient,
                                amount |-> argument.amount]>>)

NextDilute == AddToCocktail

SpecDilute == InitDilute /\ [][NextDilute]_vars

-----------------------------------------------------------------------------
(* Claims about the balance scorer, under SpecBalance *)

\* C1 (as stated): for every taste vector with entries in [0,1], the all-zero
\* vector included, _compute_overall_balance returns a value in (0, 1], and
\* returns exactly 1 if and only if all five dimensions are equal.
C1_BalanceInHalfOpenUnitInterval ==
    BalanceReturned =>
        /\ QLess(Zero, result.overall_balance)
        /\ QLeq(result.overall_balance, One)
        /\ (result.overall_balance = One <=> AllEqual(argument.taste_scores))

\* C1 (amended): for every taste vector with entries in [0,1] that is not
\* all-zero the balance lies in (0, 1] and is exactly 1 if and only if all
\* five dimensions are equal; for the all-zero vector the balance is 0.
C1_BalanceUnlessAllZero ==
    BalanceReturned =>
        IF AllZero(argument.taste_scores)
        THEN result.overall_balance = Zero
        ELSE /\ QLess(Zero, result.overall_balance)
             /\ QLeq(result.overall_balance, One)
             /\ (result.overall_balance = One
                     <=> AllEqual(argument.taste_scores))

\* a vector of five equal non-zero scores has been scored 1
C1_Witness ==
    /\ BalanceReturned
    /\ AllEqual(argument.taste_scores)
    /\ ~AllZero(argument.taste_scores)
    /\ result.overall_balance = One

\* C2 (as stated): for every legal taste vector the population variance is
\* at most 0.25 and the balance 1/(1+variance) is at least 0.8.
C2_BalanceAtLeastFourFifths ==
    BalanceReturned =>
        /\ Legal(argument.taste_scores)
        /\ QLeq(Variance(Values(argument.taste_scores)), Q(1, 4))
        /\ QLeq(Q(4, 5), result.overall_balance)

\* C2 (amended): for every legal taste vector the population variance is at
\* most 0.25; the balance is at least 0.8 for every legal vector that is not
\* all-zero, and is 0 (below 0.8) for the all-zero vector.
C2_BalanceAtLeastFourFifthsUnlessAllZero ==
    BalanceReturned =>
        /\ Legal(argument.taste_scores)
        /\ QLeq(Variance(Values(argument.taste_scores)), Q(1, 4))
        /\ IF AllZero(argument.taste_scores)
           THEN result.overall_balance = Zero
           ELSE QLeq(Q(4, 5), result.overall_balance)

\* the vector of largest spread (two dimensions at 1, three at 0; variance
\* 6/25) has been scored 25/31
C2_Witness ==
    /\ BalanceReturned
    /\ Variance(Values(argument.taste_scores)) = Q(6, 25)
    /\ result.overall_balance = Q(25, 31)

\* C10 (as stated): for the aggregated taste vector [0.45, 0.45, 0, 0, 0]
\* the variance used by the balance scorer is 0.081 and the balance is
\* 1/(1 + 0.081), approximately 0.925.
C10_VarianceEightyOneThousandths ==
    (BalanceReturned /\ argument.taste_scores = HalfAndHalf) =>
        /\ Variance(Values(argument.taste_scores)) = Q(81, 1000)
        /\ result.overall_balance = QDiv(One, QAdd(One, Q(81, 1000)))
        /\ QLess(Q(9245, 10000), result.overall_balance)
        /\ QLess(result.overall_balance, Q(9255, 10000))

\* C10 (amended): for the aggregated taste vector [0.45, 0.45, 0, 0, 0] the
\* variance used by the balance scorer is 0.0486 and the balance is
\* 1/(1 + 0.0486), approximately 0.954.
C10_VarianceOfHalfAndHalf ==
    (BalanceReturned /\ argument.taste_scores = HalfAndHalf) =>
        /\ Variance(Values(argument.taste_scores)) = Q(486, 10000)
        /\ result.overall_balance = QDiv(One, QAdd(One, Q(486, 10000)))
        /\ QLess(Q(9535, 10000), result.overall_balance)
        /\ QLess(result.overall_balance, Q(9545, 10000))

\* the vector [0.45, 0.45, 0, 0, 0] has been scored 5000/5243
C10_Witness ==
    /\ BalanceReturned
    /\ argument.taste_scores = HalfAndHalf
    /\ result.overall_balance = Q(5000, 5243)

-----------------------------------------------------------------------------
(* Claims about the aggregation, under SpecAggregate *)

\* C8: for every cocktail with total_volume > 0 the per-ingredient weights
\* volume_i / total_volume used by the aggregation sum to 1.
C8_WeightsSumToOne ==
    (AggregateEnded
        /\ QLess(Zero, QSumSeq(Volumes(argument.measures)))) =>
        /\ Len(result.weights) = Len(argument.profiles)
        /\ \A i \in 1..Len(result.weights) :
               result.weights[i] =
                   QDiv(argument.measures[i].value,
                        QSumSeq(Volumes(argument.measures)))
        /\ QSumSeq(result.weights) = One

\* three ingredients of 25, 50 and 25 ml have been weighed 1/4, 1/2 and 1/4
C8_Witness ==
    /\ AggregateEnded
    /\ result.weights = <<Q(1, 4), Q(1, 2), Q(1, 4)>>

\* the weight of ingredient i as the specification gives it: its share of
\* the total volume, 1/n when the total volume is 0
Share(measures, i) ==
    IF QSumSeq(Volumes(measures)) = Zero THEN Q(1, Len(measures))
    ELSE QDiv(measures[i].value, QSumSeq(Volumes(measures)))

\* C9: the aggregated taste vector equals, in each dimension, the sum over
\* the ingredients of weight_i times that ingredient's score; ingredient A
\* (sweet 0.9) at 50 ml with ingredient B (sour 0.9) at 50 ml aggregates to
\* sweet 0.45, sour 0.45, bitter 0, savory 0, aromatic 0.
C9_AggregatedIsWeightedSum ==
    (AggregateEnded /\ result.status = "returned") =>
        /\ \A d \in Dims :
               result.value.taste_scores[d] =
                   QSumSeq([i \in 1..Len(argument.profiles) |->
                               QMul(Share(argument.measures, i),
                                    argument.profiles[i].taste_scores[d])])
        /\ (/\ Len(argument.profiles) = 2
            /\ argument.profiles[1].ingredient = "A"
            /\ argument.profiles[2].ingredient = "B"
            /\ argument.measures[1].value = QInt(50)
            /\ argument.measures[2].value = QInt(50))
               => result.value.taste_scores = HalfAndHalf

\* A at 50 ml and B at 50 ml have been aggregated to [0.45, 0.45, 0, 0, 0]
C9_Witness ==
    /\ AggregateEnded
    /\ result.status = "returned"
    /\ Len(argument.profiles) = 2
    /\ argument.profiles[1].ingredient = "A"
    /\ argument.profiles[2].ingredient = "B"
    /\ argument.measures[1].value = QInt(50)
    /\ argument.measures[2].value = QInt(50)
    /\ result.value.taste_scores = HalfAndHalf

-----------------------------------------------------------------------------
(* Claims about the sessions, under Spec *)

\* analyze_cocktail has ended for a stored cocktail
AnalysisEnded ==
    result.op = "analyze_cocktail" /\ Known(cocktails, result.cocktail_name)

\* modify_cocktail has ended after it made its working lists
SimulationEnded == result.op = "modify_cocktail" /\ result.work # <<>>

\* C3: analyze_cocktail and the simulation in modify_cocktail return a result
\* rather than raise for every cocktail whose ingredients are partly or
\* entirely absent from the molecule index, also when no ingredient has any
\* molecule and when the only ingredients with molecules have volume 0.
C3_ReturnsWhenIngredientsAbsent ==
    /\ AnalysisEnded => result.status = "returned"
    /\ (SimulationEnded /\ result.work.ingredients # <<>>)
           => result.status = "returned"

\* C4: when the total volume of a cocktail is 0 the aggregation uses uniform
\* weights 1/n, and when the ingredient count is 0 (after modify_cocktail
\* removed the last ingredient) the simulation still returns a result; no
\* exception occurs in either case.
C4_ReturnsWhenNothingToWeigh ==
    /\ (SimulationEnded /\ result.work.ingredients = <<>>)
           => result.status = "returned"
    /\ (/\ SimulationEnded
        /\ result.work.ingredients # <<>>
        /\ TotalVolume(Volumes(result.work.measures)) = Zero)
           => /\ result.status = "returned"
              /\ \A i \in 1..Len(result.work.ingredients) :
                     Weights(result.work.ingredients, result.work.measures)[i]
                         = Q(1, Len(result.work.ingredients))

\* the operations that take a cocktail name
NamedOperations ==
    {"analyze_cocktail", "modify_cocktail", "recommend_improvements",
     "find_best_modification"}

\* C5: for an unknown cocktail name, analyze_cocktail, modify_cocktail,
\* recommend_improvements and find_best_modification each return an explicit
\* error record and never raise; no ingredient is profiled and neither the
\* profile caches nor the cocktail data change.
C5_UnknownNameGivesErrorRecord ==
    [][(result'.op \in NamedOperations
           /\ ~Known(cocktails, result'.cocktail_name)) =>
          /\ result'.status = "returned"
          /\ DOMAIN result'.value = {"error"}
          /\ profile_cache' = profile_cache
          /\ cocktails' = cocktails]_vars

\* the zero profile: every taste score 0, aromatic intensity 0, volatility
\* 0 and no molecule
IsZeroProfile(profile) ==
    /\ profile.taste_scores = ZeroScores
    /\ profile.aromatic_intensity = Zero
    /\ profile.volatility_estimate = Zero
    /\ profile.num_molecules = 0

\* C6: for every ingredient name for which the molecule lookup (exact plus
\* fallback) returns no molecules, get_ingredient_profile returns a profile
\* whose taste vector is exactly 0 in all five dimensions, with
\* aromatic_intensity 0, volatility 0 and molecule count 0: the profile
\* that the last call returned, and the one that a call on any profiler
\* would return for any ingredient name in the state reached.
C6_NoMoleculesGivesZeroProfile ==
    /\ (/\ result.op = "get_ingredient_profile"
        /\ get_molecules_for_ingredient(version, result.profiler,
                                        result.ingredient) = <<>>)
           => IsZeroProfile(result.value)
    /\ argument.kind = "session" =>
           \A p \in Profilers, i \in IngredientNames :
               get_molecules_for_ingredient(version, p, i) = <<>> =>
                   IsZeroProfile(
                       get_ingredient_profile(version, p, profile_cache[p],
                                              i).profile)

\* the analyzer's profiler, which has no entry for simple syrup, has
\* returned the zero profile for it
C6_Witness ==
    /\ result.op = "get_ingredient_profile"
    /\ result.profiler = "analyzer"
    /\ result.ingredient = "simple syrup"
    /\ IsZeroProfile(result.value)

\* C7: every taste-vector entry lies in [0,1]: for every ingredient profile
\* produced by get_ingredient_profile, and for the aggregated profile of
\* every cocktail, stored or reached from a stored one by add, remove,
\* increase, decrease and substitute modifications with non-negative
\* amounts.
C7_TasteEntriesInUnitInterval ==
    /\ result.op = "get_ingredient_profile" => Legal(result.value.taste_scores)
    /\ (AnalysisEnded /\ result.status = "returned") =>
           /\ Legal(result.value.balance_scores)
           /\ \A i \in 1..Len(result.value.ingredient_profiles) :
                  Legal(result.value.ingredient_profiles[i].taste_scores)
    /\ (SimulationEnded /\ result.status = "returned") =>
           /\ Legal(result.value.original.taste_scores)
           /\ Legal(result.value.modified.taste_scores)

\* a simulation that changed the volumes and the ingredients of a cocktail
\* has returned an aggregated vector with an entry strictly between 0 and 1
C7_Witness ==
    /\ SimulationEnded
    /\ result.status = "returned"
    /\ Len(result.modifications) = 2
    /\ result.work.ingredients
           # cocktails[_find_cocktail(cocktails,
                                      result.cocktail_name)].ingredients
    /\ \E d \in Dims :
           /\ QLess(Zero, result.value.modified.taste_scores[d])
           /\ QLess(result.value.modified.taste_scores[d], One)

\* the outcome of a call without the name it was called with
Outcome(r) == [x \in DOMAIN r \ {"cocktail_name"} |-> r[x]]

\* C11: analyzing the same unmodified cocktail twice in a row yields
\* identical results (taste vector, overall_balance, complexity): the second
\* call, served from the populated profile cache, returns exactly what the
\* first call computed on cache misses.
C11_SecondAnalysisIdentical ==
    [][(/\ result.op = "analyze_cocktail"
        /\ result'.op = "analyze_cocktail"
        /\ Known(cocktails, result.cocktail_name)
        /\ _find_cocktail(cocktails, result'.cocktail_name)
               = _find_cocktail(cocktails, result.cocktail_name))
          => /\ Outcome(result') = Outcome(result)
             /\ result.status = "returned" =>
                    /\ result'.value.balance_scores
                           = result.value.balance_scores
                    /\ result'.value.overall_balance
                           = result.value.overall_balance
                    /\ result'.value.complexity_score
                           = result.value.complexity_score]_vars

\* Gin Sour has been analyzed a second time: the first of the two calls of
\* the session left the three profiles of its ingredients in the cache of
\* the analyzer's profiler, which only an analysis of Gin Sour does
C11_Witness ==
    /\ calls = 2
    /\ result.op = "analyze_cocktail"
    /\ result.cocktail_name = "Gin Sour"
    /\ result.status = "returned"
    /\ DOMAIN profile_cache["analyzer"] = {"gin", "lemon juice", "sugar"}
    /\ \A p \in Profilers \ {"analyzer"} : profile_cache[p] = <<>>

\* the aggregation of the lists by an analyzer that has profiled nothing yet
FromScratch(ingredients, measures) ==
    _aggregate_profiles(
        ProfileAll(version, "analyzer", <<>>, ingredients).profiles,
        measures).value

\* modify_cocktail has returned its comparison
ComparisonReturned ==
    /\ result.op = "modify_cocktail"
    /\ result.status = "returned"
    /\ ~IsError(result.value)

\* C18: the 'modified' part of a modify_cocktail result depends only on the
\* final ingredient/volume lists: it equals what a from-scratch aggregation
\* and balance scoring of those lists gives, independent of the order or
\* number of modifications that produced them; in particular an empty
\* modification list yields modified taste scores and balance equal to the
\* original, balance_change 0 and balance_improved false.
C18_ModifiedIsFromScratch ==
    ComparisonReturned =>
        /\ result.value.modified.ingredients = result.work.ingredients
        /\ result.value.modified.taste_scores
               = FromScratch(result.work.ingredients,
                             result.work.measures).taste_scores
        /\ result.value.modified.overall_balance
               = _compute_overall_balance(
                     FromScratch(result.work.ingredients,
                                 result.work.measures).taste_scores)
        /\ result.modifications = <<>> =>
               /\ result.value.modified.taste_scores
                      = result.value.original.taste_scores
               /\ result.value.modified.overall_balance
                      = result.value.original.overall_balance
               /\ result.value.impact_analysis.balance_change.to
                      = result.value.impact_analysis.balance_change.from
               /\ result.value.impact_analysis.balance_improved = FALSE

\* Gin Sour has been modified with the empty list of modifications and the
\* comparison shows its balance, which is not 1, on both sides
C18_Witness ==
    /\ ComparisonReturned
    /\ result.cocktail_name = "Gin Sour"
    /\ result.modifications = <<>>
    /\ result.value.modified.overall_balance
           = result.value.original.overall_balance
    /\ result.value.original.overall_balance # One
    /\ result.value.impact_analysis.balance_improved = FALSE

\* find_best_modification of FlavorOptimizerV3 has returned tested
\* candidates
CandidatesReturned ==
    /\ result.op = "find_best_modification"
    /\ result.status = "returned"
    /\ "all_candidates" \in DOMAIN result.value

\* new balance minus original balance of one candidate is at most that of
\* the other
ImprovesAtMost(c, d) ==
    QLeq(QSub(c.new_balance, c.original_balance),
         QSub(d.new_balance, d.original_balance))

\* the default of max_candidates
DefaultMaxCandidates == 5

\* C19: FlavorOptimizerV3.find_best_modification returns as
\* best_modification a member of all_candidates whose improvement (new
\* balance minus original balance) is greater than or equal to that of every
\* other tested candidate, and among candidates with equal maximal
\* improvement it returns the one with the lowest rank; at most
\* max_candidates candidates are tested.
C19_BestIsFirstMaximal ==
    CandidatesReturned =>
        /\ \E i \in 1..Len(result.value.all_candidates) :
               result.value.all_candidates[i] = result.value.best_modification
        /\ \A i \in 1..Len(result.value.all_candidates) :
               /\ result.value.all_candidates[i].improvement
                      = Gain(result.value.all_candidates[i].new_balance,
                             result.value.original_balance)
               /\ result.value.all_candidates[i].original_balance
                      = result.value.original_balance
               /\ ImprovesAtMost(result.value.all_candidates[i],
                                 result.value.best_modification)
               /\ ImprovesAtMost(result.value.best_modification,
                                 result.value.all_candidates[i])
                      => result.value.best_modification.rank
                             <= result.value.all_candidates[i].rank
        /\ Len(result.value.all_candidates) <= DefaultMaxCandidates
        /\ result.value.tested_count = Len(result.value.all_candidates)

\* several candidates have been tested, two of them improve the balance by
\* the same largest amount, and the one of the lower rank is the best
C19_Witness ==
    /\ CandidatesReturned
    /\ \E i, j \in 1..Len(result.value.all_candidates) :
           /\ i < j
           /\ result.value.all_candidates[i] = result.value.best_modification
           /\ result.value.all_candidates[j].new_balance
                  = result.value.best_modification.new_balance

\* what analyze_cocktail returned for the name when the session began
AnalyzedAtFirst(cocktail_name) ==
    analyze_cocktail(version, "analyzer", <<>>, StoredCocktails,
                     cocktail_name).out

\* C17: the stored cocktail is read-only: after any sequence of
\* modify_cocktail, recommend_improvements and find_best_modification calls,
\* the ingredient list and every measure value of every cocktail held by the
\* analyzer equal their initial values, so analyze_cocktail of a name
\* returns the same result before and after.
C17_StoredCocktailsReadOnly ==
    /\ Len(cocktails) = Len(StoredCocktails)
    /\ \A c \in 1..Len(cocktails) :
           /\ cocktails[c].ingredients = StoredCocktails[c].ingredients
           /\ Len(cocktails[c].measures) = Len(StoredCocktails[c].measures)
           /\ \A i \in 1..Len(cocktails[c].measures) :
                  cocktails[c].measures[i].value
                      = StoredCocktails[c].measures[i].value
    /\ result.op = "analyze_cocktail" =>
           \A x \in DOMAIN AnalyzedAtFirst(result.cocktail_name) :
               result[x] = AnalyzedAtFirst(result.cocktail_name)[x]

\* Gin Sour has been analyzed after a modify_cocktail that replaced its gin
\* by simple syrup and raised its sugar: only that call leaves the profiles
\* of lemon juice and sugar without that of gin in the cache of the
\* modifier's profiler
C17_Witness ==
    /\ calls = 2
    /\ result.op = "analyze_cocktail"
    /\ result.cocktail_name = "Gin Sour"
    /\ result.status = "returned"
    /\ DOMAIN profile_cache["modifier"] = {"lemon juice", "sugar"}

\* two consecutive calls of get_ingredient_profile on the same profiler
\* with names that are equal up to letter case
SameNameAgain ==
    /\ result.op = "get_ingredient_profile"
    /\ result'.op = "get_ingredient_profile"
    /\ result'.profiler = result.profiler
    /\ Lower(result'.ingredient) = Lower(result.ingredient)

\* every entry of every profile cache is still there, unchanged, after
\* the step
CacheEntriesKept ==
    \A p \in Profilers :
        \A x \in DOMAIN profile_cache[p] :
            /\ x \in DOMAIN profile_cache'[p]
            /\ profile_cache'[p][x] = profile_cache[p][x]

\* C25: a profiler builds the profile of each case-normalized ingredient
\* name at most once: a call of get_ingredient_profile that follows a call
\* with a name equal up to letter case is answered from the cache without
\* a new molecule lookup, also when the name has no molecules; and a cache
\* entry, once written, is never removed or replaced
C25_ProfileBuiltOncePerName ==
    [][ /\ SameNameAgain => ~result'.looked_up
        /\ CacheEntriesKept ]_vars

\* the profile under which the modifier's profiler simulated the tested
\* candidate is the profile under which the optimizer's profiler
\* recommended it, and it is not the empty profile: a profile with molecules
\* is in the cache of the profiler that built it
SimulatedAsRecommended(candidate) ==
    /\ candidate.ingredient \in DOMAIN profile_cache["optimizer"]
    /\ candidate.ingredient \in DOMAIN profile_cache["modifier"]
    /\ profile_cache["modifier"][candidate.ingredient]
           = profile_cache["optimizer"][candidate.ingredient]

\* C27: the profile that makes a candidate eligible and ranks it is the
\* profile the simulator uses: the optimizer's own profiler and the
\* modifier's profiler resolve every ingredient to the same molecules, so a
\* recommended ingredient is never simulated as an all-zero profile
C27_SimulatedWithRecommendedProfile ==
    CandidatesReturned =>
        \A i \in 1..Len(result.value.all_candidates) :
            SimulatedAsRecommended(result.value.all_candidates[i])

-----------------------------------------------------------------------------
(* Claims about the loop over the modifications, under SpecModify *)

\* the position of the first entry of the list that names the ingredient,
\* 0 when none does
Named(ingredient, ingredients) ==
    IF \E i \in 1..Len(ingredients) : ingredients[i] = ingredient
    THEN CHOOSE i \in 1..Len(ingredients) :
             /\ ingredients[i] = ingredient
             /\ \A j \in 1..(i - 1) : ingredients[j] # ingredient
    ELSE 0

\* the list without its entry at the position
Without(list, at) == SubSeq(list, 1, at - 1) \o SubSeq(list, at + 1, Len(list))

\* the volumes with the volume at the position replaced
WithVolume(measures, at, volume) ==
    [i \in 1..Len(measures) |->
        IF i = at THEN [measures[i] EXCEPT !.value = volume] ELSE measures[i]]

\* the stated effect of one modification on the working copy
StatedEffect(work, mod) ==
    LET at == Named(mod.ingredient, work.ingredients)
        volume == work.measures[at].value
    IN  IF mod.action = "add"
        THEN [ingredients |-> work.ingredients \o <<mod.ingredient>>,
              measures |-> work.measures \o <<[value |-> mod.amount]>>]
        ELSE IF at = 0 THEN work
        ELSE IF mod.action = "remove"
        THEN [ingredients |-> Without(work.ingredients, at),
              measures |-> Without(work.measures, at)]
        ELSE IF mod.action = "increase"
        THEN [ingredients |-> work.ingredients,
              measures |-> WithVolume(work.measures, at,
                                      QAdd(volume, mod.amount))]
        ELSE IF mod.action = "decrease"
        THEN [ingredients |-> work.ingredients,
              measures |->
                  WithVolume(work.measures, at,
                             IF QLess(volume, mod.amount) THEN Zero
                             ELSE QSub(volume, mod.amount))]
        ELSE [ingredients |->
                  [i \in 1..Len(work.ingredients) |->
                      IF i = at THEN mod.substitute_with
                      ELSE work.ingredients[i]],
              measures |-> work.measures]

\* the stated effects of the modifications, one after the other from the
\* first to the last
RECURSIVE StatedEffects(_, _)
StatedEffects(work, modifications) ==
    IF modifications = <<>> THEN work
    ELSE StatedEffects(StatedEffect(work, modifications[1]),
                       SubSeq(modifications, 2, Len(modifications)))

\* C16: modify_cocktail applies the modifications in list order with these
\* effects on the working copy: add appends (ingredient, amount) at the end;
\* remove deletes the ingredient with its volume; increase adds the amount
\* to the ingredient's volume; decrease subtracts it but never below 0;
\* substitute replaces the ingredient name and keeps its volume; a remove,
\* increase, decrease or substitute naming an ingredient not in the list
\* changes nothing.
C16_ModificationsInListOrder ==
    ModificationsApplied =>
        /\ result.work = StatedEffects(argument.work, argument.modifications)
        /\ Len(result.work.ingredients) = Len(result.work.measures)
        /\ \A i \in 1..Len(result.work.measures) :
               QLeq(Zero, result.work.measures[i].value)

\* 15 ml have been taken from the 10 ml of gin, which leaves 0 ml, and gin
\* has then been replaced by honey at that volume
C16_Witness ==
    /\ ModificationsApplied
    /\ argument.work.ingredients = <<"gin", "lemon juice", "sugar">>
    /\ argument.modifications
           = <<Decrease("gin", 15), Substitute("gin", "honey")>>
    /\ result.work.ingredients = <<"honey", "lemon juice", "sugar">>
    /\ result.work.measures[1].value = Zero

-----------------------------------------------------------------------------
(* Claims about the turns of the loop over the modifications, under        *)
(* SpecLoop                                                                 *)

\* the working lists as one list of (ingredient, volume) pairs
Pairs(work) ==
    [i \in 1..Len(work.ingredients) |->
        <<work.ingredients[i], work.measures[i].value>>]

\* the pairs without the pair at position i
PairsWithout(pairs, i) ==
    [j \in 1..(Len(pairs) - 1) |-> IF j < i THEN pairs[j] ELSE pairs[j + 1]]

\* every position keeps its pair, except that one pair may have been
\* appended, one pair may have been deleted, or one pair may have got
\* another name or another volume
PositionsKept(before, after) ==
    \/ after = before
    \/ /\ Len(after) = Len(before) + 1
       /\ SubSeq(after, 1, Len(before)) = before
    \/ \E i \in 1..Len(before) : after = PairsWithout(before, i)
    \/ /\ Len(after) = Len(before)
       /\ \E i \in 1..Len(before) :
              /\ \A j \in 1..Len(before) : j # i => after[j] = before[j]
              /\ after[i][1] = before[i][1] \/ after[i][2] = before[i][2]

\* no modification of the list has a negative amount
AmountsNotNegative ==
    \A i \in 1..Len(argument.modifications) :
        "amount" \in DOMAIN argument.modifications[i]
            => QLeq(Zero, argument.modifications[i].amount)

VolumesNotNegative(work) ==
    \A i \in 1..Len(work.measures) : QLeq(Zero, work.measures[i].value)

\* C28: during modify_cocktail, after each applied modification, the
\* working ingredient list and the working measure list have equal length
\* and corresponding positions; with non-negative volumes and amounts
\* every working volume stays non-negative
C28_WorkingListsStayPaired ==
    [][ /\ Len(result'.work.ingredients) = Len(result'.work.measures)
        /\ PositionsKept(Pairs(result.work), Pairs(result'.work))
        /\ (AmountsNotNegative /\ VolumesNotNegative(result.work))
               => VolumesNotNegative(result'.work) ]_vars

\* the first gin, of 0 ml, has been removed from gin, sugar, gin, and 15 ml
\* have then been taken from the 20 ml of the remaining gin
C28_Witness ==
    /\ result.op = "loop"
    /\ argument.work.ingredients = <<"gin", "sugar", "gin">>
    /\ argument.modifications = <<Remove("gin"), Decrease("gin", 15)>>
    /\ result.applied = 2
    /\ Pairs(result.work) = << <<"sugar", QInt(5)>>, <<"gin", QInt(5)>> >>

\* both modifications of the list [add X, remove X] have been applied
AddedThenRemoved ==
    /\ result.op = "loop"
    /\ Len(argument.modifications) = 2
    /\ result.applied = 2
    /\ argument.modifications[1].action = "add"
    /\ argument.modifications[2]
           = Remove(argument.modifications[1].ingredient)

\* C29: the modification list [add(X, v), remove(X)] leaves the working
\* ingredient and measure lists equal to the original lists, also when X
\* already occurs in the cocktail
C29_AddThenRemoveRestores ==
    AddedThenRemoved => result.work = argument.work

-----------------------------------------------------------------------------
(* Claims about the addition of one ingredient, under SpecDilute *)

\* modify_cocktail has returned the comparison of the cocktail with and
\* without the added ingredient
DilutionReturned ==
    /\ result.op = "modify_cocktail"
    /\ result.status = "returned"
    /\ ~IsError(result.value)

\* the profile that the modifier's profiler gives the added ingredient
AddedProfile ==
    ComputedProfiles[argument.version, FALSE, argument.ingredient].profile

StoredTotal == TotalVolume(Volumes(cocktails[1].measures))

\* the added ingredient has an all-zero profile, the amount is positive,
\* the cocktail has a positive total volume and its scores are not all
\* equal
DilutionCase ==
    /\ DilutionReturned
    /\ AddedProfile.taste_scores = ZeroScores
    /\ QLess(Zero, argument.amount)
    /\ QLess(Zero, StoredTotal)
    /\ \E d, e \in Dims :
           result.value.original.taste_scores[d]
               # result.value.original.taste_scores[e]

\* C30: adding, in any positive volume, an ingredient with an all-zero
\* profile to a cocktail with positive total volume and scores that are
\* not all equal scales every score by total / (total + amount) and
\* strictly increases overall_balance, so balance_improved is true
C30_ZeroProfileAdditionDilutes ==
    DilutionCase =>
        /\ \A d \in Dims :
               result.value.modified.taste_scores[d]
                   = QMul(result.value.original.taste_scores[d],
                          QDiv(StoredTotal,
                               QAdd(StoredTotal, argument.amount)))
        /\ QLess(result.value.original.overall_balance,
                 result.value.modified.overall_balance)
        /\ result.value.impact_analysis.balance_improved = TRUE

\* half a millilitre of soda water has been added to 10 ml of gin and
\* 30 ml of lemon juice
C30_Witness ==
    /\ DilutionCase
    /\ cocktails[1].ingredients = <<"gin", "lemon juice">>
    /\ Volumes(cocktails[1].measures) = <<QInt(10), QInt(30)>>
    /\ argument.ingredient = "soda water"
    /\ argument.amount = Q(1, 2)
    /\ result.value.impact_analysis.balance_improved = TRUE

-----------------------------------------------------------------------------
(* Claims about the concurrent calls, under SpecWorkers *)

\* both calls have returned, they were for the same ingredient, and both
\* missed the cache
BothMissedSame ==
    /\ WorkersDone
    /\ argument.ingredient[1] = argument.ingredient[2]
    /\ \A w \in Workers : argument.missed[w]

\* the cache each profiler had when the workers started
StartedWith(q) ==
    IF q = argument.profiler THEN argument.started_with ELSE <<>>

\* no cache entry other than those of the workers' ingredients has been
\* added, removed or changed
OtherEntriesUnchanged ==
    \A q \in Profilers :
        \A x \in (DOMAIN profile_cache[q] \cup DOMAIN StartedWith(q)) :
            (q # argument.profiler
                \/ \A w \in Workers : x # argument.ingredient[w]) =>
                /\ x \in DOMAIN profile_cache[q]
                /\ x \in DOMAIN StartedWith(q)
                /\ profile_cache[q][x] = StartedWith(q)[x]

ReturnedEqual == result.returned[1] = result.returned[2]

CacheHoldsReturned ==
    /\ argument.ingredient[1] \in DOMAIN SharedCache
    /\ SharedCache[argument.ingredient[1]] = result.returned[1]

-----------------------------------------------------------------------------
(* Claims about the molecule lookup, under SpecLookup *)

\* the molecules indexed under a name, none when the index has no such name
IndexedUnder(source) ==
    IF source \in DOMAIN molecules_by_source
    THEN {molecules_by_source[source][i] :
              i \in 1..Len(molecules_by_source[source])}
    ELSE {}

\* the union, over every fallback keyword that is a substring of the name,
\* of the molecules of that keyword's mapped sources
FallbackUnion(name) ==
    UNION {UNION {IndexedUnder(keyword_mappings[k][2][j]) :
                      j \in 1..Len(keyword_mappings[k][2])} :
               k \in {i \in 1..Len(keyword_mappings) :
                          Contains(keyword_mappings[i][1], name)}}

\* the molecules that the call returned, as a set
ReturnedMolecules(r) == {r.molecules[i] : i \in 1..Len(r.molecules)}

\* what is stated of the molecules returned for a name
StatedLookup(r) ==
    IF IndexedUnder(Lower(r.ingredient_name)) # {}
    THEN r.molecules = molecules_by_source[Lower(r.ingredient_name)]
    ELSE ReturnedMolecules(r) = FallbackUnion(Lower(r.ingredient_name))

-----------------------------------------------------------------------------
(* Claims about the plausibility score, under SpecPlausibility *)

\* the name asked for in lower case and without the blanks at its ends
AskedName == Strip(Lower(argument.ingredient))

\* the positions of the table's items of that name
InTable ==
    {i \in 1..Len(argument.ingredient_plausibility) :
        argument.ingredient_plausibility[i].name = AskedName}

\* the positions of the table's items whose name holds the name asked for
\* or is held by it
Resembling ==
    {i \in 1..Len(argument.ingredient_plausibility) :
        \/ Contains(argument.ingredient_plausibility[i].name, AskedName)
        \/ Contains(AskedName, argument.ingredient_plausibility[i].name)}

\* C21 (as stated): get_plausibility_score returns the table's score for an
\* ingredient that is in the plausibility table and exactly 0.5 for every
\* ingredient that is absent from the table (and for every ingredient when
\* no table is loaded); it never raises.
C21_HalfWhenAbsent ==
    PlausibilityReturned =>
        /\ result.status = "returned"
        /\ \A i \in InTable :
               result.score = argument.ingredient_plausibility[i].score
        /\ InTable = {} => result.score = Q(1, 2)

\* C21 (amended): get_plausibility_score returns the table's score for an
\* ingredient whose lower-cased, stripped name is in the table; for a name
\* absent from the table it returns the score of the first item whose name
\* holds the name or is held by it, and exactly 0.5 when there is no such
\* item (and for every ingredient when no table is loaded); it never raises.
C21_HalfWhenNothingResembles ==
    PlausibilityReturned =>
        /\ result.status = "returned"
        /\ \A i \in InTable :
               result.score = argument.ingredient_plausibility[i].score
        /\ (InTable = {} /\ Resembling # {}) =>
               \E i \in Resembling :
                   /\ \A j \in Resembling : i <= j
                   /\ result.score = argument.ingredient_plausibility[i].score
        /\ Resembling = {} => result.score = Q(1, 2)

\* 'tomato' is in no table; the table has 'tomato juice', which holds it,
\* and its score 0.1 has been returned
C21_Witness ==
    /\ PlausibilityReturned
    /\ argument.ingredient = "tomato"
    /\ argument.ingredient_plausibility \in PlausibilityTables
    /\ argument.ingredient_plausibility # <<>>
    /\ result.score = Q(1, 10)

-----------------------------------------------------------------------------
(* Claims about the ranking by plausibility, under SpecRank *)

\* the one-to-one maps of the positions 1..n onto themselves
Orderings(n) ==
    {p \in [1..n -> 1..n] : \A i, j \in 1..n : p[i] = p[j] => i = j}

\* C20: with plausibility weighting, rank_recommendations_with_plausibility
\* sets combined_score = improvement x plausibility on every candidate and
\* returns the candidates ordered by non-increasing combined_score,
\* candidates with equal combined_score keeping their original relative
\* order, so the first element has maximal combined_score and the lowest
\* original rank among ties.
C20_RankedByCombinedScore ==
    RankReturned =>
        /\ Len(result.candidates) = Len(argument.candidates)
        /\ \A k \in 1..Len(result.candidates) :
               /\ result.candidates[k].ingredient
                      = argument.candidates[k].ingredient
               /\ result.candidates[k].improvement
                      = argument.candidates[k].improvement
               /\ result.candidates[k].combined_score
                      = QMul(result.candidates[k].improvement,
                             result.candidates[k].plausibility)
        /\ Len(result.ranked) = Len(result.candidates)
        /\ \E p \in Orderings(Len(result.ranked)) :
               /\ \A i \in 1..Len(result.ranked) :
                      result.ranked[i] = result.candidates[p[i]]
               /\ \A i, j \in 1..Len(result.ranked) :
                      i < j =>
                          /\ QLeq(result.ranked[j].combined_score,
                                  result.ranked[i].combined_score)
                          /\ result.ranked[j].combined_score
                                 = result.ranked[i].combined_score
                                 => p[i] < p[j]

\* the second candidate has the larger combined score and comes first; the
\* first and the third, of different ingredients, have the same combined
\* score and keep their order
C20_Witness ==
    /\ RankReturned
    /\ argument.ingredient_plausibility # <<>>
    /\ Len(result.ranked) = 3
    /\ result.ranked[1] = result.candidates[2]
    /\ result.ranked[2] = result.candidates[1]
    /\ result.ranked[3] = result.candidates[3]
    /\ result.ranked[2].combined_score = result.ranked[3].combined_score
    /\ result.ranked[2].ingredient # result.ranked[3].ingredient
    /\ result.ranked[2].improvement # result.ranked[3].improvement

-----------------------------------------------------------------------------
(* Claims about the recommenders, under SpecRecommend *)

\* the recommendations of the dict that recommend_improvements returned
Emitted == result.value.recommendations

\* C12: whenever a cocktail's overall_balance is at least 0.98,
\* recommend_improvements of the adaptive recommenders (FlavorOptimizerV2,
\* FlavorOptimizerV3 and the subclass of the latter) returns an empty
\* recommendation list together with an explanatory message; no
\* recommendation with amount 0 ml is ever emitted, for any cocktail and any
\* target.
C12_NothingRecommendedWhenExcellent ==
    (RecommendEnded /\ argument.version # 1) =>
        /\ QLeq(Q(98, 100), argument.analysis.overall_balance) =>
               /\ Emitted = <<>>
               /\ "message" \in DOMAIN result.value
               /\ result.value.message # ""
        /\ \A i \in 1..Len(Emitted) :
               QLess(Zero, Emitted[i].recommendation.amount)

\* a cocktail of balance at least 0.98 whose scores are not all equal has
\* been given to an adaptive recommender with the target 'sweeter', and
\* nothing has been recommended
C12_Witness ==
    /\ RecommendEnded
    /\ argument.version = 2
    /\ argument.target_balance = "sweeter"
    /\ QLeq(Q(98, 100), argument.analysis.overall_balance)
    /\ ~AllEqual(argument.analysis.balance_scores)
    /\ Emitted = <<>>

\* the imbalance that the specification states for a target
StatedImbalance(target) ==
    CASE target = "sweeter" ->
           [dimension |-> "sweet", type |-> "too_low", priority |-> "high"]
      [] target = "more_sour" ->
           [dimension |-> "sour", type |-> "too_low", priority |-> "high"]
      [] target = "less_bitter" ->
           [dimension |-> "bitter", type |-> "too_high", priority |-> "high"]
      [] target = "more_aromatic" ->
           [dimension |-> "aromatic", type |-> "too_low", priority |-> "high"]

\* the targets that force an imbalance
ForcingTargets == {"sweeter", "more_sour", "less_bitter", "more_aromatic"}

\* C14: when the caller supplies a target (sweeter, more_sour, less_bitter,
\* more_aromatic), imbalance detection bypasses the statistical test: the
\* reported imbalances consist of the forced imbalance of the requested
\* dimension and direction, carried with the highest priority, and no
\* statistically detected imbalance is added alongside or in contradiction
\* to it.
C14_TargetBypassesDetection ==
    (/\ RecommendEnded
     /\ argument.target_balance \in ForcingTargets
     /\ "message" \notin DOMAIN result.value)
        => result.value.identified_issues
               = <<StatedImbalance(argument.target_balance)>>

\* the ingredient is one of the cocktail's, whatever the case of the letters
AlreadyIn(ingredient, ingredients) ==
    \E j \in 1..Len(ingredients) : Lower(ingredients[j]) = Lower(ingredient)

\* the number of molecules that the recommender's profiler finds for the
\* ingredient
MoleculesOf(ingredient) ==
    Len(get_molecules_for_ingredient(argument.version, "optimizer",
                                     ingredient))

\* C15: no recommendation ever names an ingredient that is already in the
\* cocktail (compared case-insensitively) or an ingredient whose profile has
\* zero molecules; this holds for every cocktail, every flagged imbalance
\* and every recommender version.
C15_RecommendedIsNewAndProfiled ==
    RecommendEnded =>
        \A i \in 1..Len(Emitted) :
            /\ ~AlreadyIn(Emitted[i].recommendation.ingredient,
                          argument.analysis.ingredients)
            /\ MoleculesOf(Emitted[i].recommendation.ingredient) > 0

\* a cocktail that holds 'Sugar' and 'HONEY' has been given recommendations
\* for too little sweetness, which name neither
C15_Witness ==
    /\ RecommendEnded
    /\ argument.analysis.ingredients = <<"Sugar", "HONEY", "soda water">>
    /\ Emitted # <<>>
    /\ Emitted[1].issue = [dimension |-> "sweet", type |-> "too_low"]
    /\ \A i \in 1..Len(Emitted) :
           Lower(Emitted[i].recommendation.ingredient)
               \notin {"sugar", "honey"}

\* the scores of the cocktail given to the recommender
GivenScores == argument.analysis.balance_scores

\* the mean of the five scores
MeanOfFive(scores) ==
    QDiv(QAdd(QAdd(QAdd(QAdd(scores["sweet"], scores["sour"]),
                        scores["bitter"]), scores["savory"]),
              scores["aromatic"]),
         QInt(5))

\* the square of the distance of a score from the mean
SquareFromMean(scores, d) ==
    QMul(QSub(scores[d], MeanOfFive(scores)),
         QSub(scores[d], MeanOfFive(scores)))

\* the square of the standard deviation of the five scores
StdSquared(scores) ==
    QDiv(QAdd(QAdd(QAdd(QAdd(SquareFromMean(scores, "sweet"),
                             SquareFromMean(scores, "sour")),
                        SquareFromMean(scores, "bitter")),
                   SquareFromMean(scores, "savory")),
              SquareFromMean(scores, "aromatic")),
         QInt(5))

\* the factor k of the stated thresholds
StatedFactor == IF argument.version = 1 THEN One ELSE Q(7, 10)

\* the score is farther than k times the standard deviation from the mean
FartherThanStd(scores, d) ==
    QLess(QMul(QMul(StatedFactor, StatedFactor), StdSquared(scores)),
          SquareFromMean(scores, d))

\* score > mean + k * std
StatedTooHigh(scores, d) ==
    QLess(MeanOfFive(scores), scores[d]) /\ FartherThanStd(scores, d)

\* score < mean - k * std and score < 0.3
StatedTooLow(scores, d) ==
    /\ QLess(scores[d], MeanOfFive(scores))
    /\ FartherThanStd(scores, d)
    /\ QLess(scores[d], Q(3, 10))

\* the positions of the reported imbalances of a dimension and a type
Flagged(d, type) ==
    {i \in 1..Len(result.value.identified_issues) :
        /\ result.value.identified_issues[i].dimension = d
        /\ result.value.identified_issues[i].type = type}

\* a recommender without a target has reported the imbalances it found
DetectionReported ==
    /\ RecommendEnded
    /\ argument.target_balance = None
    /\ "message" \notin DOMAIN result.value

\* C22: without a target, _identify_imbalances flags a dimension too_high
\* exactly when score > mean + k*std and too_low exactly when
\* score < mean - k*std and score < 0.3 (k = 1.0 in FlavorOptimizer, k = 0.7
\* in V2/V3), with mean and std taken over the five scores; each dimension
\* is flagged at most once, never as both too_high and too_low, and a
\* vector with all five scores equal yields no imbalance.
C22_FlaggedExactlyBeyondThreshold ==
    DetectionReported =>
        /\ \A d \in Dims :
               /\ Flagged(d, "too_high") # {} <=> StatedTooHigh(GivenScores, d)
               /\ Flagged(d, "too_low") # {} <=> StatedTooLow(GivenScores, d)
               /\ Cardinality(Flagged(d, "too_high") \cup Flagged(d, "too_low"))
                      <= 1
        /\ \A i \in 1..Len(result.value.identified_issues) :
               /\ result.value.identified_issues[i].dimension \in Dims
               /\ result.value.identified_issues[i].type
                      \in {"too_high", "too_low"}
        /\ AllEqual(GivenScores) => result.value.identified_issues = <<>>

\* FlavorOptimizerV3 without a target has flagged sour and aromatic, at 1,
\* as too high and sweet, at 0, as too low: with the mean 0.4 and the
\* standard deviation 0.49 sweet is within one standard deviation of the
\* mean and beyond 0.7 of it
C22_Witness ==
    /\ DetectionReported
    /\ argument.version = 3
    /\ GivenScores["sweet"] = Zero
    /\ GivenScores["sour"] = One
    /\ GivenScores["bitter"] = Zero
    /\ Flagged("sour", "too_high") # {}
    /\ Flagged("aromatic", "too_high") # {}
    /\ Flagged("sweet", "too_low") # {}

\* the stated contrasting dimension
StatedContrast(d) ==
    CASE d = "sweet" -> "sour"
      [] d \in {"sour", "bitter", "savory", "aromatic"} -> "sweet"

\* the ingredient is in the recommender's ingredient table of the dimension
InTableOf(d, ingredient) ==
    \E k \in 1..Len(dimension_ingredients(argument.version, d)) :
        dimension_ingredients(argument.version, d)[k] = ingredient

\* C23: for a too_low imbalance the candidates come only from the flagged
\* dimension's own ingredient table; for a too_high imbalance they come only
\* from the table of the contrasting dimension, which is sour when the
\* flagged dimension is sweet and sweet for sour, bitter, savory and
\* aromatic.
C23_CandidatesFromStatedTable ==
    RecommendEnded =>
        \A i \in 1..Len(Emitted) :
            /\ Emitted[i].issue.type = "too_low" =>
                   InTableOf(Emitted[i].issue.dimension,
                             Emitted[i].recommendation.ingredient)
            /\ Emitted[i].issue.type = "too_high" =>
                   InTableOf(StatedContrast(Emitted[i].issue.dimension),
                             Emitted[i].recommendation.ingredient)
            /\ Emitted[i].issue.type \in {"too_low", "too_high"}

\* too much sweetness has been answered by ingredients of the sour table
\* that are not in the sweet table, and too much of another dimension by
\* ingredients of the sweet table that are not in that dimension's table
C23_Witness ==
    /\ RecommendEnded
    /\ \E i \in 1..Len(Emitted) :
           /\ Emitted[i].issue = [dimension |-> "sweet", type |-> "too_high"]
           /\ InTableOf("sour", Emitted[i].recommendation.ingredient)
           /\ ~InTableOf("sweet", Emitted[i].recommendation.ingredient)
    /\ \E i \in 1..Len(Emitted) :
           /\ Emitted[i].issue.type = "too_high"
           /\ Emitted[i].issue.dimension # "sweet"
           /\ InTableOf("sweet", Emitted[i].recommendation.ingredient)
           /\ ~InTableOf(Emitted[i].issue.dimension,
                         Emitted[i].recommendation.ingredient)

-----------------------------------------------------------------------------
(* Claims about the adaptive amount, under SpecAmount *)

\* the balance factor as the specification states it
StatedBalanceFactor(balance) ==
    CASE QLeq(Q(98, 100), balance) -> Zero
      [] QLess(balance, Q(98, 100)) /\ QLeq(Q(95, 100), balance) -> Q(1, 4)
      [] QLess(balance, Q(95, 100)) /\ QLeq(Q(90, 100), balance) -> Q(1, 2)
      [] QLess(balance, Q(90, 100)) /\ QLeq(Q(80, 100), balance) -> Q(3, 4)
      [] OTHER -> One

\* clamp(x, 5, 30)
Clamp(x) == QMax(QInt(5), QMin(x, QInt(30)))

\* clamp(total_volume * 0.12 * balance_factor * severity_factor, 5, 30)
StatedAmount(balance, magnitude, total_volume) ==
    Clamp(QMul(QMul(QMul(total_volume, Q(12, 100)),
                    StatedBalanceFactor(balance)),
               QMin(QDiv(magnitude, Q(3, 10)), QInt(2))))

\* C13 (as stated): the adaptive amount equals clamp(total_volume * 0.12 *
\* balance_factor * severity_factor, 5, 30), where balance_factor is 0 at
\* balance >= 0.98, 0.25 at >= 0.95, 0.5 at >= 0.90, 0.75 at >= 0.80, else
\* 1.0, and severity_factor = min(|score - mean| / 0.3, 2.0); hence every
\* amount lies in [5, 30] ml, and at balance 0.80 with deviation exactly 0.3
\* the amount is total_volume * 0.12 * 0.75 clamped into [5, 30].
C13_AmountIsClampedProduct ==
    AmountReturned =>
        /\ result.amount = StatedAmount(argument.current_balance,
                                        argument.imbalance_magnitude,
                                        argument.total_volume)
        /\ QLeq(QInt(5), result.amount) /\ QLeq(result.amount, QInt(30))
        /\ (/\ argument.current_balance = Q(80, 100)
            /\ argument.imbalance_magnitude = Q(3, 10))
               => result.amount =
                      Clamp(QMul(QMul(argument.total_volume, Q(12, 100)),
                                 Q(3, 4)))

\* C13 (amended): the adaptive amount equals clamp(total_volume * 0.12 *
\* balance_factor * severity_factor, 5, 30) rounded to one decimal place (a
\* multiple of 0.1 ml at most 0.05 ml away from it), with the same
\* balance_factor and severity_factor; hence every amount lies in [5, 30] ml,
\* and at balance 0.80 with deviation exactly 0.3 the amount is total_volume
\* * 0.12 * 0.75 clamped into [5, 30] and rounded to one decimal place.
C13_AmountIsRoundedClampedProduct ==
    AmountReturned =>
        /\ 10 % result.amount.d = 0
        /\ QLeq(QAbs(QSub(result.amount,
                          StatedAmount(argument.current_balance,
                                       argument.imbalance_magnitude,
                                       argument.total_volume))),
                Q(1, 20))
        /\ QLeq(QInt(5), result.amount) /\ QLeq(result.amount, QInt(30))
        /\ (/\ argument.current_balance = Q(80, 100)
            /\ argument.imbalance_magnitude = Q(3, 10))
               => QLeq(QAbs(QSub(result.amount,
                                 Clamp(QMul(QMul(argument.total_volume,
                                                 Q(12, 100)),
                                            Q(3, 4))))),
                       Q(1, 20))

\* at balance 0.80, deviation 0.3 and 101 ml the product 9.09 ml has been
\* returned as 9.1 ml
C13_Witness ==
    /\ AmountReturned
    /\ argument.current_balance = Q(80, 100)
    /\ argument.imbalance_magnitude = Q(3, 10)
    /\ argument.total_volume = QInt(101)
    /\ result.amount = Q(91, 10)

=============================================================================
